---- MODULE Spec2Model ----
(***************************************************************************)
(* A model of v-flow (src/vflow): the shoot-name parser and formatter of   *)
(* utils_date.py and the ingest run of actions.py (ingest_shoot with its   *)
(* helpers), over a small file system.                                     *)
(*                                                                         *)
(* Strings are sequences of one-character strings, dates are the integers  *)
(* yyyymmdd (their order is the order of datetime.date), paths are         *)
(* sequences of segments.                                                  *)
(***************************************************************************)
EXTENDS Integers, Sequences, FiniteSets, TLC

VARIABLES
    \* ---- the name round trip (utils_date.py) ----
    rt_pc,          \* "idle" | "input" | "formatted" | "parsed"
    rt_start,       \* start_date handed to format_shoot_name
    rt_end,         \* end_date handed to format_shoot_name
    rt_label,       \* name_suffix handed to format_shoot_name
    rt_name,        \* the string format_shoot_name returned
    rt_parsed,      \* what parse_shoot_date_range returned for rt_name
    \* ---- the pattern matcher (actions.py, used by pull --files) ----
    mp_pc,          \* "idle" | "input" | "matched"
    mp_pattern,     \* the filter token handed to _matches_pattern
    mp_filename,    \* the file name handed to _matches_pattern
    mp_result,      \* what _matches_pattern returned
    \* ---- the shoot discovery on its own (actions.py) ----
    sc_pc,          \* "idle" | "input" | "scanned"
    sc_shoots,      \* what _find_existing_shoots returned
    \* ---- pull_shoot: vflow pull --shoot .. [--source ..] [--files ..] ----
    pull_pc,        \* "idle" | "start" | "select" | "copy" | "next" | "summary" | "done"
    pull_outcome,   \* "none" | "aborted" | "complete"
    source_type,    \* --source
    files_filter,   \* --files: the tokens, <<>> when none is given
    sources_to_pull,    \* the list of [label, archive_dir, dest_folder]
    source_idx,     \* the number of sources the loop over sources_to_pull has finished
    files_to_copy,
    total_copied,
    total_skipped,
    total_errors,
    pull_log,       \* what the copy loops did: <<label, file name, what happened>>
    \* ---- locals that pull_shoot and prep_shoot both have ----
    files_already_exist,
    files_to_process,
    file_idx,       \* the number of files the copy or move loop has finished
    \* ---- prep_shoot: vflow prep --shoot .. ----
    prep_pc,        \* "idle" | "start" | "move" | "summary" | "done"
    prep_outcome,   \* "none" | "aborted" | "nothing" | "complete"
    files_to_move,
    moved_count,
    prep_error_count,   \* error_count of prep_shoot
    move_log,       \* what the move loop did: <<file name, what happened>>
    \* ---- archive_file: vflow archive --shoot .. --file .. [--keep-log] ----
    arch_pc,        \* "idle" | "start" | "tag" | "copy" | "cleanup" | "done"
    arch_outcome,   \* "none" | "aborted" | "complete"
    file_name,      \* --file
    keep_log,       \* --keep-log
    tagged_file_path,
    \* ---- consolidate_files: vflow consolidate --source .. --output-folder .. ----
    cons_pc,        \* "idle" | "start" | "scan" | "done"
    cons_outcome,   \* "none" | "aborted" | "complete"
    source_dir,     \* --source
    output_folder_name, \* --output-folder
    archive_index,  \* the set of <<name, size>>
    source_files,   \* list(source_path.rglob("*.*"))
    cons_idx,       \* the number of entries of source_files the loop has finished
    cons_copied_count,  \* copied_count of consolidate_files
    cons_skipped_count, \* skipped_count of consolidate_files
    copied_log,     \* the lines written to copied_files.txt
    skipped_log,    \* the lines written to skipped_duplicates.txt
    cons_copies,    \* what the copies did: <<source path, whether the copy went through>>
    cons_run,       \* 1 in the first run, 2 in a run over the same source after it
    first_run,      \* what the first run ended with
    \* ---- utils_date.cluster_files_by_date ----
    cl_pc,          \* "idle" | "input" | "clustered"
    files_with_dates,
    gap_hours,
    clusters,
    \* ---- the file system ----
    fs_dirs,        \* the directories: a set of canonical paths (<<>> is /)
    fs_files,       \* the regular files: canonical path -> [size, content]
    fs_dirs0,       \* fs_dirs when the current run of ingest_shoot began
    fs_files0,      \* fs_files when the current run of ingest_shoot began
    \* ---- the invocation: vflow ingest --source .. --shoot .. [--auto] [--force] ----
    source,         \* the source folder: [exists, entries], entries in rglob order
    shoot_name,     \* --shoot (<<>> when it is not given)
    auto,           \* --auto
    force,          \* --force
    scan_desc,      \* the order in which iterdir yields names: descending or ascending
    \* ---- ingest_shoot ----
    pc,             \* "idle" | "start" | "planned" | "copying" | "summary" | "done"
    outcome,        \* "none" | "aborted" | "nofiles" | "skipped" | "complete"
    abort_reason,   \* "none" | "source" | "noname" | "validation" | "safety" | "mkdir"
    files_to_ingest,
    min_date,
    max_date,
    target_shoot_name,
    shoot_in_laptop,
    shoot_in_archive,
    copy_to_archive,
    idx,            \* the number of files the copy loop has finished
    laptop_dup,     \* the loop's laptop_dup for the file it handled last
    archive_dup,    \* the loop's archive_dup for the file it handled last
    copied_count,
    skipped_count,
    error_count,
    copy_log,       \* the calls of copy_and_verify so far: <<file index, destination, result>>
    run,            \* 1 in the first run of ingest_shoot, 2 in a repeated one
    prev            \* how the run before this one ended: [outcome, error_count, copies]

rt_vars == <<rt_pc, rt_start, rt_end, rt_label, rt_name, rt_parsed>>

mp_vars == <<mp_pc, mp_pattern, mp_filename, mp_result>>

sc_vars == <<sc_pc, sc_shoots>>

\* The variables of pull_shoot alone.
pull_own ==
    <<pull_pc, pull_outcome, source_type, files_filter, sources_to_pull, source_idx,
      files_to_copy, total_copied, total_skipped, total_errors, pull_log>>

batch_vars == <<files_already_exist, files_to_process, file_idx>>

pull_vars == <<pull_own, batch_vars>>

prep_vars == <<prep_pc, prep_outcome, files_to_move, moved_count, prep_error_count, move_log>>

arch_vars == <<arch_pc, arch_outcome, file_name, keep_log, tagged_file_path>>

cons_vars ==
    <<cons_pc, cons_outcome, source_dir, output_folder_name, archive_index, source_files,
      cons_idx, cons_copied_count, cons_skipped_count, copied_log, skipped_log, cons_copies,
      cons_run, first_run>>

cl_vars == <<cl_pc, files_with_dates, gap_hours, clusters>>

\* The variables of the commands other than ingest.
cmd_vars == <<pull_vars, prep_vars, arch_vars, cons_vars, cl_vars>>

\* The variables of what is exercised apart from ingest_shoot.
pure_vars == <<rt_vars, mp_vars, sc_vars, cmd_vars>>

fs_vars == <<fs_dirs, fs_files>>

snap_vars == <<fs_dirs0, fs_files0>>

arg_vars == <<source, shoot_name, auto, force, scan_desc>>

local_vars ==
    <<files_to_ingest, min_date, max_date, target_shoot_name, shoot_in_laptop,
      shoot_in_archive, copy_to_archive>>

loop_vars ==
    <<idx, laptop_dup, archive_dup, copied_count, skipped_count, error_count, copy_log>>

ingest_vars ==
    <<fs_vars, snap_vars, arg_vars, pc, outcome, abort_reason, local_vars, loop_vars,
      run, prev>>

\* The variables of ingest_shoot other than the file system.
ingest_rest ==
    <<snap_vars, arg_vars, pc, outcome, abort_reason, local_vars, loop_vars, run, prev>>

vars == <<pure_vars, ingest_vars>>

(***************************************************************************)
(* Bounds.                                                                 *)
(***************************************************************************)
\* The dates of the model are the NumDays days that follow BaseDate.
NumDays == 2
BaseDate == 20250913

Dates == {BaseDate + i : i \in 1..NumDays}

(***************************************************************************)
(* Characters and strings.                                                 *)
(***************************************************************************)
DigitChars == <<"0", "1", "2", "3", "4", "5", "6", "7", "8", "9">>

IsDigit(c) == \E i \in 1..10 : DigitChars[i] = c

DigitVal(c) == CHOOSE i \in 0..9 : DigitChars[i + 1] = c

\* Python's None.
None == <<>>

\* f"{n:0{w}d}" for n >= 0: at least w digits, zero-padded.
RECURSIVE ZeroPad(_, _)
ZeroPad(n, w) ==
    IF w <= 1 /\ n < 10
    THEN <<DigitChars[n + 1]>>
    ELSE Append(ZeroPad(n \div 10, w - 1), DigitChars[(n % 10) + 1])

\* int(s) for a string of digits.
RECURSIVE IntOfDigits(_)
IntOfDigits(s) ==
    IF s = <<>> THEN 0
    ELSE 10 * IntOfDigits(SubSeq(s, 1, Len(s) - 1)) + DigitVal(s[Len(s)])

(***************************************************************************)
(* datetime.date: strftime('%Y-%m-%d') and strptime(..., '%Y-%m-%d').      *)
(***************************************************************************)
YearOf(d) == d \div 10000
MonthOf(d) == (d \div 100) % 100
DayOf(d) == d % 100

IsLeap(y) == (y % 4 = 0 /\ y % 100 # 0) \/ y % 400 = 0

DaysInMonth(y, m) ==
    IF m = 2 THEN (IF IsLeap(y) THEN 29 ELSE 28)
    ELSE IF m \in {4, 6, 9, 11} THEN 30 ELSE 31

\* start_date.strftime('%Y-%m-%d')
StrfDate(d) ==
    ZeroPad(YearOf(d), 4) \o <<"-">> \o ZeroPad(MonthOf(d), 2) \o <<"-">>
        \o ZeroPad(DayOf(d), 2)

\* s[i..i+9] matches \d{4}-\d{2}-\d{2}
MatchesDatePattern(s, i) ==
    /\ Len(s) >= i + 9
    /\ \A k \in {0, 1, 2, 3, 5, 6, 8, 9} : IsDigit(s[i + k])
    /\ s[i + 4] = "-"
    /\ s[i + 7] = "-"

\* datetime.strptime(s[i..i+9], '%Y-%m-%d') succeeds: no ValueError (a month
\* or a day out of range, the year 0000).
StrpOk(s, i) ==
    LET y == IntOfDigits(SubSeq(s, i, i + 3))
        m == IntOfDigits(SubSeq(s, i + 5, i + 6))
        d == IntOfDigits(SubSeq(s, i + 8, i + 9))
    IN  y >= 1 /\ m \in 1..12 /\ d >= 1 /\ d <= DaysInMonth(y, m)

\* datetime.strptime(s[i..i+9], '%Y-%m-%d').date()
StrpDate(s, i) ==
    IntOfDigits(SubSeq(s, i, i + 3)) * 10000
        + IntOfDigits(SubSeq(s, i + 5, i + 6)) * 100
        + IntOfDigits(SubSeq(s, i + 8, i + 9))

\* s[i..] matches (.+)$ : at least one character, none a line break, up to the
\* end of the string or to a single line break that ends it.
MatchesDotPlusToEnd(s, i) ==
    \E last \in i..Len(s) :
        /\ \A k \in i..last : s[k] # "\n"
        /\ \/ last = Len(s)
           \/ last = Len(s) - 1 /\ s[Len(s)] = "\n"

\* re.match(r'^(\d{4}-\d{2}-\d{2})_to_(\d{4}-\d{2}-\d{2})_(.+)$', s)
MatchesRangePattern(s) ==
    /\ MatchesDatePattern(s, 1)
    /\ Len(s) >= 26
    /\ SubSeq(s, 11, 14) = <<"_", "t", "o", "_">>
    /\ MatchesDatePattern(s, 15)
    /\ s[25] = "_"
    /\ MatchesDotPlusToEnd(s, 26)

\* re.match(r'^(\d{4}-\d{2}-\d{2})_(.+)$', s)
MatchesSinglePattern(s) ==
    /\ MatchesDatePattern(s, 1)
    /\ Len(s) >= 12
    /\ s[11] = "_"
    /\ MatchesDotPlusToEnd(s, 12)

\* parse_shoot_date_range: <<start, end>> or None.
parse_shoot_date_range(name_str) ==
    LET range_ok ==
            /\ MatchesRangePattern(name_str)
            /\ StrpOk(name_str, 1)
            /\ StrpOk(name_str, 15)
        single_ok ==
            /\ MatchesSinglePattern(name_str)
            /\ StrpOk(name_str, 1)
    IN  IF range_ok
        THEN <<StrpDate(name_str, 1), StrpDate(name_str, 15)>>
        ELSE IF single_ok
        THEN <<StrpDate(name_str, 1), StrpDate(name_str, 1)>>
        ELSE None

\* format_shoot_name
format_shoot_name(start_date, end_date, name_suffix) ==
    IF start_date = end_date
    THEN StrfDate(start_date) \o <<"_">> \o name_suffix
    ELSE StrfDate(start_date) \o <<"_", "t", "o", "_">> \o StrfDate(end_date)
            \o <<"_">> \o name_suffix

\* The name_suffix ingest_shoot passes to format_shoot_name.
IngestLabel == <<"I", "n", "g", "e", "s", "t">>

\* date_in_range
date_in_range(check_date, start_date, end_date) ==
    start_date <= check_date /\ check_date <= end_date

(***************************************************************************)
(* Strings: lower(), the order of names, pathlib's suffix.                 *)
(***************************************************************************)
UpperChars ==
    <<"A", "B", "C", "D", "E", "F", "G", "H", "I", "J", "K", "L", "M",
      "N", "O", "P", "Q", "R", "S", "T", "U", "V", "W", "X", "Y", "Z">>

LowerChars ==
    <<"a", "b", "c", "d", "e", "f", "g", "h", "i", "j", "k", "l", "m",
      "n", "o", "p", "q", "r", "s", "t", "u", "v", "w", "x", "y", "z">>

\* The characters of the model, in code point order.
Alphabet ==
    <<"\n", "-", ".", "/">> \o DigitChars \o UpperChars \o <<"_">> \o LowerChars

CharRank(c) == CHOOSE i \in 1..Len(Alphabet) : Alphabet[i] = c

LowerChar(c) ==
    IF \E i \in 1..26 : UpperChars[i] = c
    THEN LowerChars[CHOOSE i \in 1..26 : UpperChars[i] = c]
    ELSE c

\* str.lower()
LowerStr(s) == [i \in 1..Len(s) |-> LowerChar(s[i])]

\* a < b for two strings
RECURSIVE StrLess(_, _)
StrLess(a, b) ==
    IF b = <<>> THEN FALSE
    ELSE IF a = <<>> THEN TRUE
    ELSE IF a[1] # b[1] THEN CharRank(a[1]) < CharRank(b[1])
    ELSE StrLess(Tail(a), Tail(b))

\* The names of S as a sequence, ascending, or descending with desc.
RECURSIVE SortNames(_, _)
SortNames(S, desc) ==
    IF S = {} THEN <<>>
    ELSE LET first == CHOOSE x \in S : \A y \in S \ {x} :
                          IF desc THEN StrLess(y, x) ELSE StrLess(x, y)
         IN  <<first>> \o SortNames(S \ {first}, desc)

\* PurePath.suffix of a file name
SuffixOf(name) ==
    LET dots == {i \in 1..Len(name) : name[i] = "."}
    IN  IF dots = {} THEN <<>>
        ELSE LET i == CHOOSE k \in dots : \A j \in dots : j <= k
             IN  IF 1 < i /\ i < Len(name) THEN SubSeq(name, i, Len(name)) ELSE <<>>

\* video_extensions
video_extensions ==
    {<<".", "m", "p", "4">>, <<".", "m", "o", "v">>, <<".", "m", "x", "f">>,
     <<".", "m", "t", "s">>, <<".", "a", "v", "i">>, <<".", "m", "4", "v">>}

(***************************************************************************)
(* Paths (pathlib) and the file system.  A path is the sequence of its     *)
(* segments from /; it may hold ".." segments until it is resolved.        *)
(***************************************************************************)
DotDot == <<".", ".">>

Front(p) == SubSeq(p, 1, Len(p) - 1)

Last(p) == p[Len(p)]

\* The segments of a string: split at "/", the empty and the "." segments dropped
\* (pathlib's parsing of a path string).
RECURSIVE PathParts(_)
PathParts(s) ==
    IF s = <<>> THEN <<>>
    ELSE LET slashes == {i \in 1..Len(s) : s[i] = "/"}
             cut == IF slashes = {} THEN Len(s) + 1
                    ELSE CHOOSE i \in slashes : \A j \in slashes : i <= j
             seg == SubSeq(s, 1, cut - 1)
             rest == IF cut >= Len(s) THEN <<>> ELSE PathParts(SubSeq(s, cut + 1, Len(s)))
         IN  IF seg = <<>> \/ seg = <<".">> THEN rest ELSE <<seg>> \o rest

\* Path(base) / s : an absolute s replaces base
PathJoin(base, s) ==
    IF s # <<>> /\ s[1] = "/" THEN PathParts(s) ELSE base \o PathParts(s)

\* Path.resolve() of a path with no symbolic links: ".." drops the segment
\* before it, whether or not the path exists.
RECURSIVE ResolveFrom(_, _)
ResolveFrom(cur, segs) ==
    IF segs = <<>> THEN cur
    ELSE IF Head(segs) = DotDot
    THEN ResolveFrom(IF cur = <<>> THEN <<>> ELSE Front(cur), Tail(segs))
    ELSE ResolveFrom(Append(cur, Head(segs)), Tail(segs))

Resolve(p) == ResolveFrom(<<>>, p)

\* PurePath.relative_to(other) raises no ValueError: other's segments begin p.
IsRelativeTo(p, other) ==
    Len(p) >= Len(other) /\ SubSeq(p, 1, Len(other)) = other

\* The operating system's walk along p from the directory cur: every segment
\* must name an existing directory. [ok, path]: the directory reached.
RECURSIVE WalkDirs(_, _, _)
WalkDirs(cur, segs, dirs) ==
    IF segs = <<>> THEN [ok |-> TRUE, path |-> cur]
    ELSE LET nxt == IF Head(segs) = DotDot
                    THEN (IF cur = <<>> THEN <<>> ELSE Front(cur))
                    ELSE Append(cur, Head(segs))
         IN  IF nxt \in dirs THEN WalkDirs(nxt, Tail(segs), dirs)
             ELSE [ok |-> FALSE, path |-> <<>>]

\* Path.is_dir()
IsDir(p, dirs) == WalkDirs(<<>>, p, dirs).ok

\* p names a regular file
IsFile(p, dirs, files) ==
    /\ p # <<>>
    /\ Last(p) # DotDot
    /\ WalkDirs(<<>>, Front(p), dirs).ok
    /\ Append(WalkDirs(<<>>, Front(p), dirs).path, Last(p)) \in DOMAIN files

\* Path.exists()
Exists(p, dirs, files) == IsDir(p, dirs) \/ IsFile(p, dirs, files)

\* The canonical path of the regular file p.
FileAt(p, dirs) == Append(WalkDirs(<<>>, Front(p), dirs).path, Last(p))

\* Path.stat().st_size of the regular file p.
StatSize(p, dirs, files) == files[FileAt(p, dirs)].size

\* The names Path.iterdir() yields for the directory d, in the order it yields
\* them, each with whether it is a directory.
IterDir(d, dirs, files, desc) ==
    LET at == WalkDirs(<<>>, d, dirs).path
        kids == {p \in dirs \cup DOMAIN files :
                    Len(p) = Len(at) + 1 /\ SubSeq(p, 1, Len(at)) = at}
    IN  SortNames({Last(p) : p \in kids}, desc)

\* os.mkdir(p): "ok" and the directory made, "exists" (FileExistsError),
\* "missing" (FileNotFoundError: a parent is missing).
OsMkdir(p, dirs, files) ==
    IF p = <<>> THEN [res |-> "exists", dirs |-> dirs]
    ELSE LET parent == WalkDirs(<<>>, Front(p), dirs)
         IN  IF ~parent.ok THEN [res |-> "missing", dirs |-> dirs]
             ELSE IF Last(p) = DotDot THEN [res |-> "exists", dirs |-> dirs]
             ELSE IF Append(parent.path, Last(p)) \in dirs \cup DOMAIN files
             THEN [res |-> "exists", dirs |-> dirs]
             ELSE [res |-> "ok", dirs |-> dirs \cup {Append(parent.path, Last(p))}]

\* Path.mkdir(parents=True, exist_ok=True): [ok, dirs]. It makes the missing
\* parents first; an existing directory is no error, an existing file is.
RECURSIVE MkdirParents(_, _, _)
MkdirParents(p, dirs, files) ==
    LET first == OsMkdir(p, dirs, files)
    IN  IF first.res = "ok" THEN [ok |-> TRUE, dirs |-> first.dirs]
        ELSE IF first.res = "exists" THEN [ok |-> IsDir(p, dirs), dirs |-> dirs]
        ELSE IF p = <<>> THEN [ok |-> FALSE, dirs |-> dirs]
        ELSE LET up == MkdirParents(Front(p), dirs, files)
             IN  IF ~up.ok THEN [ok |-> FALSE, dirs |-> up.dirs]
                 ELSE LET again == OsMkdir(p, up.dirs, files)
                      IN  IF again.res = "ok" THEN [ok |-> TRUE, dirs |-> again.dirs]
                          ELSE [ok |-> again.res = "exists" /\ IsDir(p, up.dirs),
                                dirs |-> up.dirs]

(***************************************************************************)
(* The configured locations (config.get_location) and the helpers of       *)
(* actions.py.                                                             *)
(***************************************************************************)
\* locations.laptop and locations.archive_hdd: two directories that exist.
laptop_dest == << <<"L">> >>

archive_dest == << <<"A">> >>

\* archive_dest / "Video" / "RAW"
archive_raw == archive_dest \o << <<"V", "i", "d", "e", "o">>, <<"R", "A", "W">> >>

\* file_path.suffix.lower() in video_extensions
IsVideoFile(f) == LowerStr(SuffixOf(f.name)) \in video_extensions

\* copy_and_verify that returns True although the copy raised.
copy_and_verify_unverified(f, dest, dirs, files, io_ok) ==
    [ok |-> TRUE, files |-> files]

\* copy_and_verify(source, dest): [ok, files].  io_ok is whether the copy
\* itself goes through; when it does not, shutil.copy2 raises and nothing is
\* written.  shutil.copy2 writes source.name inside dest when dest is a
\* directory, and writes the file dest itself otherwise.
copy_and_verify(f, dest, dirs, files, io_ok) ==
    IF ~io_ok THEN [ok |-> FALSE, files |-> files]
    ELSE LET dst == IF IsDir(dest, dirs) THEN Append(dest, f.name) ELSE dest
             can_write ==
                 /\ dst # <<>>
                 /\ Last(dst) # DotDot
                 /\ WalkDirs(<<>>, Front(dst), dirs).ok
                 /\ ~IsDir(dst, dirs)
             written ==
                 IF can_write
                 THEN [p \in DOMAIN files \cup {FileAt(dst, dirs)} |->
                          IF p = FileAt(dst, dirs)
                          THEN [size |-> f.size, content |-> f.content]
                          ELSE files[p]]
                 ELSE files
         IN  [ok |-> can_write /\ Exists(Append(dest, f.name), dirs, written),
              files |-> written]

\* _find_existing_shoots with a record per folder seen: the archive scan adds
\* a record of its own for a name the staging scan has recorded.
_find_existing_shoots_unmerged(laptop, archive, dirs, files, desc) ==
    LET IsLaptopShoot(n) ==
            IsDir(Append(laptop, n), dirs) /\ parse_shoot_date_range(n) # None
        laptop_names ==
            IF Exists(laptop, dirs, files)
            THEN SelectSeq(IterDir(laptop, dirs, files, desc), IsLaptopShoot)
            ELSE <<>>
        raw == archive \o << <<"V", "i", "d", "e", "o">>, <<"R", "A", "W">> >>
        IsArchiveShoot(n) ==
            IsDir(Append(raw, n), dirs) /\ parse_shoot_date_range(n) # None
        archive_names ==
            IF Exists(raw, dirs, files)
            THEN SelectSeq(IterDir(raw, dirs, files, desc), IsArchiveShoot)
            ELSE <<>>
    IN  [i \in 1..Len(laptop_names) |->
            [name |-> laptop_names[i],
             date_range |-> parse_shoot_date_range(laptop_names[i]),
             in_laptop |-> TRUE,
             in_archive |-> FALSE]]
        \o
        [i \in 1..Len(archive_names) |->
            [name |-> archive_names[i],
             date_range |-> parse_shoot_date_range(archive_names[i]),
             in_laptop |-> FALSE,
             in_archive |-> TRUE]]

\* _find_existing_shoots without the is_dir() tests.
_find_existing_shoots_any_entry(laptop, archive, dirs, files, desc) ==
    LET IsShootName(n) == parse_shoot_date_range(n) # None
        laptop_names ==
            IF Exists(laptop, dirs, files)
            THEN SelectSeq(IterDir(laptop, dirs, files, desc), IsShootName)
            ELSE <<>>
        raw == archive \o << <<"V", "i", "d", "e", "o">>, <<"R", "A", "W">> >>
        archive_names ==
            IF Exists(raw, dirs, files)
            THEN SelectSeq(IterDir(raw, dirs, files, desc), IsShootName)
            ELSE <<>>
        InLaptop(n) == \E i \in 1..Len(laptop_names) : laptop_names[i] = n
        InArchive(n) == \E i \in 1..Len(archive_names) : archive_names[i] = n
        NotInLaptop(n) == ~InLaptop(n)
        archive_only == SelectSeq(archive_names, NotInLaptop)
    IN  [i \in 1..Len(laptop_names) |->
            [name |-> laptop_names[i],
             date_range |-> parse_shoot_date_range(laptop_names[i]),
             in_laptop |-> TRUE,
             in_archive |-> InArchive(laptop_names[i])]]
        \o
        [i \in 1..Len(archive_only) |->
            [name |-> archive_only[i],
             date_range |-> parse_shoot_date_range(archive_only[i]),
             in_laptop |-> FALSE,
             in_archive |-> TRUE]]

\* _find_existing_shoots: the dict as the sequence of its items, in insertion
\* order, each [name, date_range, in_laptop, in_archive].
_find_existing_shoots(laptop, archive, dirs, files, desc) ==
    LET IsLaptopShoot(n) ==
            IsDir(Append(laptop, n), dirs) /\ parse_shoot_date_range(n) # None
        laptop_names ==
            IF Exists(laptop, dirs, files)
            THEN SelectSeq(IterDir(laptop, dirs, files, desc), IsLaptopShoot)
            ELSE <<>>
        raw == archive \o << <<"V", "i", "d", "e", "o">>, <<"R", "A", "W">> >>
        IsArchiveShoot(n) ==
            IsDir(Append(raw, n), dirs) /\ parse_shoot_date_range(n) # None
        archive_names ==
            IF Exists(raw, dirs, files)
            THEN SelectSeq(IterDir(raw, dirs, files, desc), IsArchiveShoot)
            ELSE <<>>
        InLaptop(n) == \E i \in 1..Len(laptop_names) : laptop_names[i] = n
        InArchive(n) == \E i \in 1..Len(archive_names) : archive_names[i] = n
        NotInLaptop(n) == ~InLaptop(n)
        archive_only == SelectSeq(archive_names, NotInLaptop)
    IN  [i \in 1..Len(laptop_names) |->
            [name |-> laptop_names[i],
             date_range |-> parse_shoot_date_range(laptop_names[i]),
             in_laptop |-> TRUE,
             in_archive |-> InArchive(laptop_names[i])]]
        \o
        [i \in 1..Len(archive_only) |->
            [name |-> archive_only[i],
             date_range |-> parse_shoot_date_range(archive_only[i]),
             in_laptop |-> FALSE,
             in_archive |-> TRUE]]

\* RangeContains with overlap in the place of containment.
RangeOverlaps(shoot_range, file_start, file_end) ==
    shoot_range[1] <= file_end /\ file_start <= shoot_range[2]

\* The test of _find_matching_shoot: the file range fits within the shoot range.
RangeContains(shoot_range, file_start, file_end) ==
    shoot_range[1] <= file_start /\ file_end <= shoot_range[2]

\* _find_matching_shoot: the first shoot of the dict whose date range contains
\* the file date range, or None.
_find_matching_shoot(file_start, file_end, existing_shoots) ==
    LET hits == {i \in 1..Len(existing_shoots) :
                    RangeContains(existing_shoots[i].date_range, file_start, file_end)}
    IN  IF hits = {} THEN None
        ELSE existing_shoots[CHOOSE i \in hits : \A j \in hits : i <= j].name

\* _is_duplicate without the comparison of the sizes.
_is_duplicate_by_name(f, dest_dir, dirs, files) ==
    Exists(Append(dest_dir, f.name), dirs, files)

\* _is_duplicate(file_path, dest_dir): the destination holds an entry of the
\* file's name and of its size.  (No directory of the model bears the name
\* of a file, so the entry found is a regular file.)
_is_duplicate(f, dest_dir, dirs, files) ==
    LET dest_file == Append(dest_dir, f.name)
    IN  IF ~Exists(dest_file, dirs, files) THEN FALSE
        ELSE IsFile(dest_file, dirs, files)
                /\ f.size = StatSize(dest_file, dirs, files)

(***************************************************************************)
(* The pattern matcher of actions.py.                                      *)
(***************************************************************************)
UpperChar(c) ==
    IF \E i \in 1..26 : LowerChars[i] = c
    THEN UpperChars[CHOOSE i \in 1..26 : LowerChars[i] = c]
    ELSE c

\* str.upper()
UpperStr(s) == [i \in 1..Len(s) |-> UpperChar(s[i])]

\* c matches [A-Za-z]
IsLetter(c) == \E i \in 1..26 : UpperChars[i] = c \/ LowerChars[i] = c

\* sub in s : sub is a substring of s
Contains(sub, s) ==
    \E i \in 0..(Len(s) - Len(sub)) : SubSeq(s, i + 1, i + Len(sub)) = sub

\* The last index of the longest run of digits that begins at i (i - 1 when
\* there is none).
RECURSIVE DigitRunEnd(_, _)
DigitRunEnd(s, i) ==
    IF i <= Len(s) /\ IsDigit(s[i]) THEN DigitRunEnd(s, i + 1) ELSE i - 1

\* The same for a run of letters.
RECURSIVE LetterRunEnd(_, _)
LetterRunEnd(s, i) ==
    IF i <= Len(s) /\ IsLetter(s[i]) THEN LetterRunEnd(s, i + 1) ELSE i - 1

\* An Optional[int]: None, or a number.
NoNumber == [some |-> FALSE, val |-> 0]

\* _extract_number_from_filename: re.search(r'(\d+)', filename), as a number.
_extract_number_from_filename(filename) ==
    LET digits == {i \in 1..Len(filename) : IsDigit(filename[i])}
    IN  IF digits = {} THEN NoNumber
        ELSE LET first == CHOOSE i \in digits : \A j \in digits : i <= j
             IN  [some |-> TRUE,
                  val |-> IntOfDigits(SubSeq(filename, first,
                                             DigitRunEnd(filename, first)))]

\* re.match(r'^([A-Za-z]*?)(\d+)-([A-Za-z]*?)(\d+)$', s): whether it matches,
\* and its four groups.  Letters and digits being apart, the groups are the
\* longest runs; $ admits a line break that ends the string.
RangeMatch(s) ==
    LET a == LetterRunEnd(s, 1)
        b == DigitRunEnd(s, a + 1)
        c == LetterRunEnd(s, b + 2)
        d == DigitRunEnd(s, c + 1)
    IN  [ok |-> /\ b > a
                /\ b + 1 <= Len(s)
                /\ s[b + 1] = "-"
                /\ d > c
                /\ \/ d = Len(s)
                   \/ d = Len(s) - 1 /\ s[Len(s)] = "\n",
         prefix1 |-> SubSeq(s, 1, a),
         num1 |-> SubSeq(s, a + 1, b),
         prefix2 |-> SubSeq(s, b + 2, c),
         num2 |-> SubSeq(s, c + 1, d)]

\* The (None, None, None) of _parse_range_pattern.
NotARange == [is_range |-> FALSE, prefix |-> None, start_num |-> 0, end_num |-> 0]

\* _parse_range_pattern: (prefix, start_num, end_num); an empty group is the
\* prefix None.  The second pattern, ^([A-Za-z]*?)(\d+)-(\d+)$, is the first
\* with no letters after the dash.
_parse_range_pattern(pattern) ==
    LET m == RangeMatch(UpperStr(pattern))
        start_num == IntOfDigits(m.num1)
        end_num == IntOfDigits(m.num2)
        same_prefix ==
            \/ m.prefix1 = <<>> /\ m.prefix2 = <<>>
            \/ m.prefix1 # <<>> /\ m.prefix2 # <<>> /\ m.prefix1 = m.prefix2
        found == [is_range |-> TRUE, prefix |-> m.prefix1,
                  start_num |-> start_num, end_num |-> end_num]
    IN  IF m.ok /\ same_prefix /\ start_num <= end_num THEN found
        ELSE IF m.ok /\ m.prefix2 = <<>> /\ start_num <= end_num THEN found
        ELSE NotARange

\* re.sub(r'\d+', '', s)
RemoveDigits(s) ==
    LET NotDigit(c) == ~IsDigit(c)
    IN  SelectSeq(s, NotDigit)

\* _matches_pattern without the test of the prefix of a range.
_matches_pattern_any_prefix(pattern, filename) ==
    LET range == _parse_range_pattern(pattern)
        file_num == _extract_number_from_filename(filename)
    IN  IF range.is_range
        THEN file_num.some /\ range.start_num <= file_num.val /\ file_num.val <= range.end_num
        ELSE Contains(LowerStr(pattern), LowerStr(filename))

\* _matches_pattern without the comparison of the numbers.
_matches_pattern_substring_only(pattern, filename) ==
    LET range == _parse_range_pattern(pattern)
        file_num == _extract_number_from_filename(filename)
    IN  IF range.is_range
        THEN /\ file_num.some
             /\ range.prefix # <<>> => Contains(LowerStr(range.prefix), LowerStr(filename))
             /\ range.start_num <= file_num.val
             /\ file_num.val <= range.end_num
        ELSE Contains(LowerStr(pattern), LowerStr(filename))

\* _matches_pattern
_matches_pattern(pattern, filename) ==
    LET filename_lower == LowerStr(filename)
        pattern_lower == LowerStr(pattern)
        range == _parse_range_pattern(pattern)
        pattern_num == _extract_number_from_filename(pattern)
        file_num == _extract_number_from_filename(filename)
        pattern_letters == RemoveDigits(pattern_lower)
    IN  IF range.is_range
        THEN IF ~file_num.some THEN FALSE
             ELSE IF range.prefix # <<>> /\ ~Contains(LowerStr(range.prefix), filename_lower)
             THEN FALSE
             ELSE range.start_num <= file_num.val /\ file_num.val <= range.end_num
        ELSE IF pattern_num.some /\ file_num.some /\ pattern_num.val = file_num.val
        THEN IF pattern_letters # <<>>
             THEN Contains(pattern_letters, filename_lower)
             ELSE TRUE
        ELSE Contains(pattern_lower, filename_lower)

(***************************************************************************)
(* ingest_shoot.                                                           *)
(***************************************************************************)
\* laptop_dest / target_shoot_name
laptop_shoot_dir_of(target) == PathJoin(laptop_dest, target)

\* archive_dest / "Video" / "RAW" / target_shoot_name
archive_shoot_dir_of(target) == PathJoin(archive_raw, target)

\* The safety check of ingest_shoot: neither relative_to raises ValueError.
destinations_ok(target) ==
    /\ IsRelativeTo(Resolve(laptop_shoot_dir_of(target)), Resolve(laptop_dest))
    /\ IsRelativeTo(Resolve(archive_shoot_dir_of(target)), Resolve(archive_raw))

\* The pre-check of ingest_shoot: "Ingest skipped." is echoed and it returns.
precheck_skips(found, target, in_laptop, in_archive, dirs, files) ==
    LET laptop_dir == laptop_shoot_dir_of(target)
        archive_dir == archive_shoot_dir_of(target)
        existing_in_laptop ==
            IF in_laptop /\ Exists(laptop_dir, dirs, files)
            THEN Cardinality({i \in 1..Len(found) :
                                 _is_duplicate(found[i], laptop_dir, dirs, files)})
            ELSE 0
        existing_in_archive ==
            IF in_archive /\ Exists(archive_dir, dirs, files)
            THEN Cardinality({i \in 1..Len(found) :
                                 _is_duplicate(found[i], archive_dir, dirs, files)})
            ELSE 0
        total_files == Len(found)
    IN  /\ in_laptop \/ in_archive
        /\ \/ /\ in_laptop
              /\ in_archive
              /\ existing_in_laptop = total_files
              /\ existing_in_archive = total_files
           \/ in_laptop /\ existing_in_laptop = total_files

\* validation_warns without the warning for a name that bears no date.
validation_warns_dated_only(name, mn, mx, existing_shoots) ==
    LET known == {i \in 1..Len(existing_shoots) : existing_shoots[i].name = name}
    IN  IF known # {}
        THEN ~RangeContains(existing_shoots[CHOOSE i \in known : TRUE].date_range, mn, mx)
        ELSE IF parse_shoot_date_range(name) # None
        THEN ~RangeContains(parse_shoot_date_range(name), mn, mx)
        ELSE FALSE

\* Manual mode: the validation of the supplied name prints its warning, and
\* without --force raises typer.Exit(code=1).
validation_warns(name, mn, mx, existing_shoots) ==
    LET known == {i \in 1..Len(existing_shoots) : existing_shoots[i].name = name}
    IN  IF known # {}
        THEN ~RangeContains(existing_shoots[CHOOSE i \in known : TRUE].date_range, mn, mx)
        ELSE IF parse_shoot_date_range(name) # None
        THEN ~RangeContains(parse_shoot_date_range(name), mn, mx)
        ELSE TRUE

\* validation_exits with --force ignored.
validation_exits_always(fo, warns) == warns

\* After a warning of the validation: if not force: raise typer.Exit(code=1)
validation_exits(fo, warns) == warns /\ ~fo

\* Step 1 of ingest_shoot: the video files under the source, in rglob order.
find_video_files(src) ==
    IF src.exists THEN SelectSeq(src.entries, IsVideoFile) ELSE <<>>

\* Step 2 of ingest_shoot: min(file_dates) and max(file_dates).
min_file_date(found) ==
    LET file_dates == {found[i].date : i \in 1..Len(found)}
    IN  CHOOSE d \in file_dates : \A e \in file_dates : d <= e

max_file_date(found) ==
    LET file_dates == {found[i].date : i \in 1..Len(found)}
    IN  CHOOSE d \in file_dates : \A e \in file_dates : e <= d

\* resolve_target with a new shoot named after the first day only.
resolve_target_start_day(au, name, mn, mx, existing_shoots) ==
    IF au
    THEN (IF _find_matching_shoot(mn, mx, existing_shoots) # None
          THEN _find_matching_shoot(mn, mx, existing_shoots)
          ELSE format_shoot_name(mn, mn, IngestLabel))
    ELSE name

\* Step 3 of ingest_shoot: target_shoot_name.  Auto mode takes the matching
\* shoot or formats a new name, manual mode takes the name supplied.
resolve_target(au, name, mn, mx, existing_shoots) ==
    IF au
    THEN (IF _find_matching_shoot(mn, mx, existing_shoots) # None
          THEN _find_matching_shoot(mn, mx, existing_shoots)
          ELSE format_shoot_name(mn, mx, IngestLabel))
    ELSE name

\* copy_strategy with the archive always written.
copy_strategy_both(in_laptop, in_archive) == TRUE

\* The copy strategy of ingest_shoot: copy_to_archive (copy_to_laptop is
\* always True).  A shoot known in the archive and not in staging is not
\* written to the archive.
copy_strategy(in_laptop, in_archive) ==
    IF in_archive /\ ~in_laptop THEN FALSE ELSE TRUE

\* ingest_shoot from its first line to the copy strategy (steps 1 to 3): it
\* reads and changes nothing.  found, mn, mx, existing_shoots and target are
\* its locals files_to_ingest, min_date, max_date, existing_shoots and
\* target_shoot_name.  The record says how far it came (outcome "none": on
\* to the creation of the destination directories) and holds the locals.
ingest_shoot_plan(src, found, mn, mx, existing_shoots, target, name, au, fo, dirs, files) ==
    LET blank == [outcome |-> "none", abort_reason |-> "none",
                  files_to_ingest |-> <<>>, min_date |-> 0, max_date |-> 0,
                  target_shoot_name |-> None, shoot_in_laptop |-> FALSE,
                  shoot_in_archive |-> FALSE, copy_to_archive |-> TRUE]
        info == {i \in 1..Len(existing_shoots) : existing_shoots[i].name = target}
        in_laptop == \E i \in info : existing_shoots[i].in_laptop
        in_archive == \E i \in info : existing_shoots[i].in_archive
        scanned == [blank EXCEPT !.files_to_ingest = found, !.min_date = mn,
                                 !.max_date = mx]
        resolved == [scanned EXCEPT !.target_shoot_name = target,
                                    !.shoot_in_laptop = in_laptop,
                                    !.shoot_in_archive = in_archive,
                                    !.copy_to_archive =
                                        copy_strategy(in_laptop, in_archive)]
    IN  IF ~src.exists
        THEN [blank EXCEPT !.outcome = "aborted", !.abort_reason = "source"]
        ELSE IF found = <<>>
        THEN [blank EXCEPT !.outcome = "nofiles"]
        ELSE IF ~au /\ name = <<>>
        THEN [scanned EXCEPT !.outcome = "aborted", !.abort_reason = "noname"]
        ELSE IF ~au /\ validation_exits(fo, validation_warns(name, mn, mx, existing_shoots))
        THEN [scanned EXCEPT !.outcome = "aborted", !.abort_reason = "validation",
                             !.target_shoot_name = name]
        ELSE IF precheck_skips(found, target, in_laptop, in_archive, dirs, files)
        THEN [scanned EXCEPT !.outcome = "skipped", !.target_shoot_name = target,
                             !.shoot_in_laptop = in_laptop,
                             !.shoot_in_archive = in_archive]
        ELSE resolved

laptop_shoot_dir == laptop_shoot_dir_of(target_shoot_name)

archive_shoot_dir == archive_shoot_dir_of(target_shoot_name)

\* Steps 1 to 3 of ingest_shoot, with the pre-check and the copy strategy.
Plan ==
    /\ pc = "start"
    /\ \E found \in {find_video_files(source)} :
       \E existing_shoots \in
              {IF found = <<>> THEN <<>>
               ELSE _find_existing_shoots(laptop_dest, archive_dest, fs_dirs, fs_files,
                                          scan_desc)} :
       \E mn \in {IF found = <<>> THEN 0 ELSE min_file_date(found)} :
       \E mx \in {IF found = <<>> THEN 0 ELSE max_file_date(found)} :
       \E target \in {IF found = <<>> THEN None
                      ELSE resolve_target(auto, shoot_name, mn, mx, existing_shoots)} :
       \E r \in {ingest_shoot_plan(source, found, mn, mx, existing_shoots, target,
                                   shoot_name, auto, force, fs_dirs, fs_files)} :
           /\ outcome' = r.outcome
           /\ abort_reason' = r.abort_reason
           /\ files_to_ingest' = r.files_to_ingest
           /\ min_date' = r.min_date
           /\ max_date' = r.max_date
           /\ target_shoot_name' = r.target_shoot_name
           /\ shoot_in_laptop' = r.shoot_in_laptop
           /\ shoot_in_archive' = r.shoot_in_archive
           /\ copy_to_archive' = r.copy_to_archive
           /\ pc' = IF r.outcome = "none" THEN "planned" ELSE "done"
    /\ UNCHANGED <<pure_vars, fs_vars, snap_vars, arg_vars, loop_vars, run, prev>>

\* Step 6 of ingest_shoot: the destination directories.  mkdir_fails is the
\* mkdir the system refuses, if any.
make_directories(laptop_dir, archive_dir, to_archive, dirs, files, mkdir_fails) ==
    LET first ==
            IF Exists(laptop_dir, dirs, files) THEN [ok |-> TRUE, dirs |-> dirs]
            ELSE IF mkdir_fails = "laptop" THEN [ok |-> FALSE, dirs |-> dirs]
            ELSE MkdirParents(laptop_dir, dirs, files)
        second ==
            IF ~to_archive \/ Exists(archive_dir, first.dirs, files)
            THEN [ok |-> TRUE, dirs |-> first.dirs]
            ELSE IF mkdir_fails = "archive" THEN [ok |-> FALSE, dirs |-> first.dirs]
            ELSE MkdirParents(archive_dir, first.dirs, files)
    IN  IF first.ok THEN second ELSE first

\* prepare_destinations with the safety check after the directories are made.
prepare_destinations_check_last(target, to_archive, dirs, files, mkdir_fails) ==
    LET made == make_directories(laptop_shoot_dir_of(target),
                                 archive_shoot_dir_of(target), to_archive,
                                 dirs, files, mkdir_fails)
    IN  IF ~made.ok THEN [ok |-> FALSE, reason |-> "mkdir", dirs |-> made.dirs]
        ELSE IF ~destinations_ok(target)
        THEN [ok |-> FALSE, reason |-> "safety", dirs |-> made.dirs]
        ELSE [ok |-> TRUE, reason |-> "none", dirs |-> made.dirs]

\* Steps 4 to 6 of ingest_shoot: the safety check, then the destination
\* directories: [ok, reason, dirs].
prepare_destinations(target, to_archive, dirs, files, mkdir_fails) ==
    IF ~destinations_ok(target)
    THEN [ok |-> FALSE, reason |-> "safety", dirs |-> dirs]
    ELSE LET made == make_directories(laptop_shoot_dir_of(target),
                                      archive_shoot_dir_of(target), to_archive,
                                      dirs, files, mkdir_fails)
         IN  [ok |-> made.ok, reason |-> IF made.ok THEN "none" ELSE "mkdir",
              dirs |-> made.dirs]

MakeDirs ==
    /\ pc = "planned"
    /\ \E mkdir_fails \in {"none", "laptop", "archive"} :
       \E r \in {prepare_destinations(target_shoot_name, copy_to_archive, fs_dirs,
                                       fs_files, mkdir_fails)} :
              /\ fs_dirs' = r.dirs
              /\ pc' = IF r.ok THEN "copying" ELSE "done"
              /\ outcome' = IF r.ok THEN outcome ELSE "aborted"
              /\ abort_reason' = r.reason
    /\ UNCHANGED <<pure_vars, fs_files, snap_vars, arg_vars, local_vars, loop_vars, run, prev>>

\* At most MaxCopyFailures copies of a run fail.
MaxCopyFailures == 2

\* Step 7 of ingest_shoot, one file of the loop: [laptop_dup, archive_dup,
\* files, copied, skipped, errors, log], the three counts being what the file
\* adds.  laptop_ok and archive_ok are whether the two copies go through.
ingest_one_file(k, f, laptop_dir, archive_dir, to_archive, dirs, files, laptop_ok, archive_ok) ==
    LET copy_to_laptop == TRUE
        l_dup == IF copy_to_laptop THEN _is_duplicate(f, laptop_dir, dirs, files) ELSE FALSE
        a_dup == IF to_archive THEN _is_duplicate(f, archive_dir, dirs, files) ELSE FALSE
        to_l == copy_to_laptop /\ ~l_dup
        l_copy == IF to_l THEN copy_and_verify(f, laptop_dir, dirs, files, laptop_ok)
                  ELSE [ok |-> FALSE, files |-> files]
        to_a == to_archive /\ ~a_dup
        a_copy == IF to_a THEN copy_and_verify(f, archive_dir, dirs, l_copy.files, archive_ok)
                  ELSE [ok |-> FALSE, files |-> l_copy.files]
        file_copied == (to_l /\ l_copy.ok) \/ (to_a /\ a_copy.ok)
    IN  IF l_dup /\ a_dup
        THEN [laptop_dup |-> l_dup, archive_dup |-> a_dup, files |-> files,
              copied |-> 0, skipped |-> 1, errors |-> 0, log |-> <<>>]
        ELSE [laptop_dup |-> l_dup, archive_dup |-> a_dup, files |-> a_copy.files,
              copied |-> IF file_copied THEN 1 ELSE 0,
              skipped |-> 0,
              errors |-> (IF to_l /\ ~l_copy.ok THEN 1 ELSE 0)
                            + (IF to_a /\ ~a_copy.ok THEN 1 ELSE 0),
              log |-> (IF to_l THEN << <<k, "laptop", l_copy.ok>> >> ELSE <<>>)
                        \o (IF to_a THEN << <<k, "archive", a_copy.ok>> >> ELSE <<>>)]

\* CopyFile with a loop that a failed copy ends.
CopyFile_stop_on_error ==
    /\ pc = "copying"
    /\ idx < Len(files_to_ingest)
    /\ \E laptop_ok, archive_ok \in BOOLEAN :
       \E r \in {ingest_one_file(idx + 1, files_to_ingest[idx + 1], laptop_shoot_dir,
                                 archive_shoot_dir, copy_to_archive, fs_dirs, fs_files,
                                 laptop_ok, archive_ok)} :
              /\ error_count + (IF laptop_ok THEN 0 ELSE 1) + (IF archive_ok THEN 0 ELSE 1)
                    <= MaxCopyFailures
              /\ fs_files' = r.files
              /\ laptop_dup' = r.laptop_dup
              /\ archive_dup' = r.archive_dup
              /\ copied_count' = copied_count + r.copied
              /\ skipped_count' = skipped_count + r.skipped
              /\ error_count' = error_count + r.errors
              /\ copy_log' = copy_log \o r.log
              /\ pc' = IF r.errors > 0 THEN "done"
                       ELSE IF idx + 1 = Len(files_to_ingest) THEN "summary" ELSE "copying"
    /\ idx' = idx + 1
    /\ UNCHANGED <<pure_vars, fs_dirs, snap_vars, arg_vars, outcome, abort_reason,
                   local_vars, run, prev>>

CopyFile ==
    /\ pc = "copying"
    /\ idx < Len(files_to_ingest)
    /\ \E laptop_ok, archive_ok \in BOOLEAN :
       \E r \in {ingest_one_file(idx + 1, files_to_ingest[idx + 1], laptop_shoot_dir,
                                 archive_shoot_dir, copy_to_archive, fs_dirs, fs_files,
                                 laptop_ok, archive_ok)} :
              /\ error_count + (IF laptop_ok THEN 0 ELSE 1) + (IF archive_ok THEN 0 ELSE 1)
                    <= MaxCopyFailures
              /\ fs_files' = r.files
              /\ laptop_dup' = r.laptop_dup
              /\ archive_dup' = r.archive_dup
              /\ copied_count' = copied_count + r.copied
              /\ skipped_count' = skipped_count + r.skipped
              /\ error_count' = error_count + r.errors
              /\ copy_log' = copy_log \o r.log
    /\ idx' = idx + 1
    /\ pc' = IF idx + 1 = Len(files_to_ingest) THEN "summary" ELSE "copying"
    /\ UNCHANGED <<pure_vars, fs_dirs, snap_vars, arg_vars, outcome, abort_reason,
                   local_vars, run, prev>>

\* Step 8 of ingest_shoot: the final summary.
Summarize ==
    /\ pc = "summary"
    /\ outcome' = "complete"
    /\ pc' = "done"
    /\ UNCHANGED <<pure_vars, fs_vars, snap_vars, arg_vars, abort_reason, local_vars,
                   loop_vars, run, prev>>

(***************************************************************************)
(* The states ingest_shoot starts in.                                      *)
(***************************************************************************)
\* At most MaxFiles entries in the source folder; at most MaxRuns runs.
MaxFiles == 2
MaxRuns == 2

FirstDate == BaseDate + 1

SecondDate == BaseDate + 2

\* The files a source folder may hold: two clips in the folder itself, a clip
\* in a subfolder that bears the name of the first, and a file that is no
\* video.
NameA == <<"a", ".", "m", "p", "4">>

NameB == <<"b", ".", "M", "P", "4">>

NameT == <<"n", ".", "t", "x", "t">>

SourceFiles ==
    {[name |-> NameA, sub |-> <<>>, size |-> 1, content |-> "A", date |-> d] : d \in Dates}
    \cup
    {[name |-> NameB, sub |-> <<>>, size |-> 2, content |-> "B", date |-> SecondDate],
     [name |-> NameA, sub |-> << <<"s">> >>, size |-> 2, content |-> "A2",
      date |-> FirstDate],
     [name |-> NameT, sub |-> <<>>, size |-> 1, content |-> "T", date |-> FirstDate]}

\* source_path.rglob('*'): the folder's own entries in the order its listing
\* yields them, then those of its subfolders.
RECURSIVE RglobOrder(_, _)
RglobOrder(S, desc) ==
    IF S = {} THEN <<>>
    ELSE LET first == CHOOSE f \in S : \A g \in S \ {f} :
                          \/ Len(f.sub) < Len(g.sub)
                          \/ /\ Len(f.sub) = Len(g.sub)
                             /\ IF desc THEN StrLess(g.name, f.name)
                                ELSE StrLess(f.name, g.name)
         IN  <<first>> \o RglobOrder(S \ {first}, desc)

SourceSets ==
    {S \in SUBSET SourceFiles :
        /\ Cardinality(S) <= MaxFiles
        /\ \A f, g \in S : (f.name = g.name /\ f.sub = g.sub) => f = g}

\* The shoot folders that may exist before the run: one that bears a range of
\* two days, one that bears the second day.
PreRange == format_shoot_name(FirstDate, SecondDate, <<"B">>)

PreSingle == format_shoot_name(SecondDate, SecondDate, <<"A">>)

\* The files of a shoot folder that exists before the run: the two clips of
\* the source (by name and size), or a file of the first clip's name and of
\* another size.
OldFull(d) ==
    {<<Append(d, NameA), [size |-> 1, content |-> "old"]>>,
     <<Append(d, NameB), [size |-> 2, content |-> "old"]>>}

OldOther(d) == {<<Append(d, NameA), [size |-> 2, content |-> "old"]>>}

\* The file system before the run: where the two shoot folders exist and
\* what they hold.
InitialTree(range_at, single_at, fill) ==
    LET laptop_shoots ==
            (IF range_at \in {"laptop", "both"} THEN {Append(laptop_dest, PreRange)} ELSE {})
            \cup (IF single_at \in {"laptop", "both"} THEN {Append(laptop_dest, PreSingle)}
                  ELSE {})
        archive_shoots ==
            (IF range_at \in {"archive", "both"} THEN {Append(archive_raw, PreRange)} ELSE {})
            \cup (IF single_at \in {"archive", "both"} THEN {Append(archive_raw, PreSingle)}
                  ELSE {})
        raw_dirs == IF archive_shoots = {} THEN {}
                    ELSE {SubSeq(archive_raw, 1, 2), archive_raw}
        laptop_files ==
            IF fill \in {"full", "laptop_full"}
            THEN UNION {OldFull(d) : d \in laptop_shoots} ELSE {}
        archive_files ==
            IF fill = "full"
            THEN UNION {OldFull(d) : d \in archive_shoots}
            ELSE IF fill = "laptop_full"
            THEN UNION {OldOther(d) : d \in archive_shoots} ELSE {}
        pairs == laptop_files \cup archive_files
    IN  [dirs |-> {<<>>, laptop_dest, archive_dest} \cup raw_dirs
                    \cup laptop_shoots \cup archive_shoots,
         files |-> [p \in {pr[1] : pr \in pairs} |->
                       (CHOOSE pr \in pairs : pr[1] = p)[2]]]

\* Where the two shoot folders exist before the run: <<the range, the day>>.
TreeShapes ==
    {<<"none", "none">>, <<"laptop", "none">>, <<"archive", "none">>, <<"both", "none">>,
     <<"none", "laptop">>, <<"laptop", "laptop">>}

InitialTrees ==
    {InitialTree(sh[1], sh[2], f) :
        sh \in TreeShapes, f \in {"empty", "full", "laptop_full"}}

\* The names --shoot is given: the two folders above, a name with ".." that
\* leads back to the root, a name with no date, ".", a dated name that leaves
\* the root, an absolute path, and no name.
ShootNames ==
    {PreRange, PreSingle,
     format_shoot_name(FirstDate, FirstDate, <<"x", "/", ".", ".">>),
     <<"x">>,
     <<".">>,
     format_shoot_name(FirstDate, SecondDate, <<"x", "/", ".", ".", "/", ".", ".", "/", "e">>),
     <<"/", "e">>,
     <<>>}

\* The values of the variables of the name round trip while ingest runs.
RtIdle ==
    /\ rt_pc = "idle"
    /\ rt_start = 0
    /\ rt_end = 0
    /\ rt_label = <<>>
    /\ rt_name = None
    /\ rt_parsed = None

\* The values of the variables of the pattern matcher while it is not run.
MpIdle ==
    /\ mp_pc = "idle"
    /\ mp_pattern = <<>>
    /\ mp_filename = <<>>
    /\ mp_result = FALSE

\* The values of the variables of the shoot discovery while it is not run
\* on its own.
ScIdle ==
    /\ sc_pc = "idle"
    /\ sc_shoots = <<>>

\* The locals of pull_shoot before its first line.
PullBlank ==
    /\ pull_outcome = "none"
    /\ sources_to_pull = <<>>
    /\ source_idx = 0
    /\ files_to_copy = <<>>
    /\ files_already_exist = 0
    /\ files_to_process = <<>>
    /\ file_idx = 0
    /\ total_copied = 0
    /\ total_skipped = 0
    /\ total_errors = 0
    /\ pull_log = <<>>

\* The values of the variables of pull_shoot while it is not run.
PullIdle ==
    /\ pull_pc = "idle"
    /\ source_type = <<>>
    /\ files_filter = <<>>
    /\ PullBlank

\* The locals of prep_shoot before its first line.
PrepBlank ==
    /\ prep_outcome = "none"
    /\ files_to_move = <<>>
    /\ moved_count = 0
    /\ prep_error_count = 0
    /\ move_log = <<>>

\* The values of the variables of prep_shoot while it is not run.
PrepIdle ==
    /\ prep_pc = "idle"
    /\ PrepBlank

\* The locals of archive_file before its first line.
ArchBlank ==
    /\ arch_outcome = "none"
    /\ tagged_file_path = <<>>

\* The values of the variables of archive_file while it is not run.
ArchIdle ==
    /\ arch_pc = "idle"
    /\ file_name = <<>>
    /\ keep_log = FALSE
    /\ ArchBlank

\* The locals of consolidate_files before its first line.
ConsBlank ==
    /\ cons_outcome = "none"
    /\ archive_index = {}
    /\ source_files = <<>>
    /\ cons_idx = 0
    /\ cons_copied_count = 0
    /\ cons_skipped_count = 0
    /\ copied_log = <<>>
    /\ skipped_log = <<>>
    /\ cons_copies = <<>>

\* The values of the variables of consolidate_files while it is not run.
ConsIdle ==
    /\ cons_pc = "idle"
    /\ source_dir = <<>>
    /\ output_folder_name = <<>>
    /\ ConsBlank
    /\ cons_run = 1
    /\ first_run = [copied_count |-> 0, failed |-> 0]

\* The values of the variables of cluster_files_by_date while it is not run.
ClIdle ==
    /\ cl_pc = "idle"
    /\ files_with_dates = <<>>
    /\ gap_hours = 0
    /\ clusters = <<>>

\* No command other than ingest is run.
CmdIdle == PullIdle /\ PrepIdle /\ ArchIdle /\ ConsIdle /\ ClIdle

\* The locals of ingest_shoot before its first line.
LocalsBlank ==
    /\ outcome = "none"
    /\ abort_reason = "none"
    /\ files_to_ingest = <<>>
    /\ min_date = 0
    /\ max_date = 0
    /\ target_shoot_name = None
    /\ shoot_in_laptop = FALSE
    /\ shoot_in_archive = FALSE
    /\ copy_to_archive = TRUE
    /\ idx = 0
    /\ laptop_dup = FALSE
    /\ archive_dup = FALSE
    /\ copied_count = 0
    /\ skipped_count = 0
    /\ error_count = 0
    /\ copy_log = <<>>

Init ==
    /\ RtIdle
    /\ MpIdle
    /\ ScIdle
    /\ CmdIdle
    /\ \E t \in InitialTrees :
          /\ fs_dirs = t.dirs
          /\ fs_files = t.files
          /\ fs_dirs0 = t.dirs
          /\ fs_files0 = t.files
    /\ scan_desc \in BOOLEAN
    /\ \E S \in SourceSets, there \in BOOLEAN :
          /\ there \/ S = {}
          /\ source = [exists |-> there, entries |-> RglobOrder(S, scan_desc)]
    \* With no listing of two names the ascending order stands for both.
    /\ scan_desc =>
          \/ Len(source.entries) >= 2
          \/ {Append(laptop_dest, PreRange), Append(laptop_dest, PreSingle)} \subseteq fs_dirs
    /\ auto \in BOOLEAN
    /\ force \in BOOLEAN
    /\ shoot_name \in ShootNames
    /\ auto => (shoot_name = <<>> /\ ~force)
    /\ pc = "start"
    /\ LocalsBlank
    /\ run = 1
    /\ prev = [outcome |-> "none", error_count |-> 0, copies |-> 0]

\* ingest_shoot is run once more, on the same source and with the same
\* arguments.
Rerun ==
    /\ pc = "done"
    /\ run < MaxRuns
    /\ run' = run + 1
    /\ prev' = [outcome |-> outcome, error_count |-> error_count, copies |-> Len(copy_log)]
    /\ fs_dirs0' = fs_dirs
    /\ fs_files0' = fs_files
    /\ pc' = "start"
    /\ outcome' = "none"
    /\ abort_reason' = "none"
    /\ files_to_ingest' = <<>>
    /\ min_date' = 0
    /\ max_date' = 0
    /\ target_shoot_name' = None
    /\ shoot_in_laptop' = FALSE
    /\ shoot_in_archive' = FALSE
    /\ copy_to_archive' = TRUE
    /\ idx' = 0
    /\ laptop_dup' = FALSE
    /\ archive_dup' = FALSE
    /\ copied_count' = 0
    /\ skipped_count' = 0
    /\ error_count' = 0
    /\ copy_log' = <<>>
    /\ UNCHANGED <<pure_vars, fs_vars, arg_vars>>

Next == Plan \/ MakeDirs \/ CopyFile \/ Summarize

Spec == Init /\ [][Next]_vars

NextRerun == Next \/ Rerun

SpecRerun == Init /\ [][NextRerun]_vars

\* The place of a run in the code of ingest_shoot: its line and the count of
\* files its loop has passed.
position == <<pc, idx>>

\* ingest_shoot is not at its end and goes on to its next place.  Every step
\* of Next is such a step, and in every state before the end one is possible:
\* Plan, MakeDirs and Summarize have no guard but the line the run is at, and
\* the loop has a file left while it runs.
Runs ==
    /\ pc \in {"start", "planned", "copying", "summary"}
    /\ pc' \in {"planned", "copying", "summary", "done"}
    /\ idx' \in {idx, idx + 1}

\* ingest_shoot runs on: it is sequential code that nothing suspends, so a
\* run that is not at its end takes its next step.
SpecLive == Init /\ [][Next]_vars /\ WF_position(Runs)

(***************************************************************************)
(* The name round trip: format_shoot_name, then parse_shoot_date_range.    *)
(***************************************************************************)
\* The labels tried: the default label, labels with underscores, labels that
\* begin with to_<date>, with and without more text, or with to_ and no valid
\* date, a label that ends in a line break, and the empty label.
Labels ==
    {IngestLabel, <<"x">>, <<"a", "_", "b">>, <<"_", "x">>, <<"t", "o", "_", "x">>, <<>>}
    \cup {<<"t", "o", "_">> \o StrfDate(d) \o <<"_", "x">> : d \in Dates}
    \cup {<<"t", "o", "_">> \o StrfDate(d) : d \in Dates}
    \cup {<<"x", "\n">>,
          <<"t", "o", "_", "2", "0", "2", "5", "-", "1", "3", "-", "0", "1", "_", "x">>}

\* The values of the variables of ingest while the name round trip runs.
IngestIdle ==
    /\ fs_dirs = {<<>>}
    /\ fs_files = <<>>
    /\ fs_dirs0 = {<<>>}
    /\ fs_files0 = <<>>
    /\ source = [exists |-> FALSE, entries |-> <<>>]
    /\ shoot_name = <<>>
    /\ auto = FALSE
    /\ force = FALSE
    /\ scan_desc = FALSE
    /\ pc = "idle"
    /\ LocalsBlank
    /\ run = 1
    /\ prev = [outcome |-> "none", error_count |-> 0, copies |-> 0]

RtInit ==
    /\ rt_pc = "input"
    /\ rt_start \in Dates
    /\ rt_end \in {d \in Dates : rt_start <= d}
    /\ rt_label \in Labels
    /\ rt_name = None
    /\ rt_parsed = None
    /\ MpIdle
    /\ ScIdle
    /\ CmdIdle
    /\ IngestIdle

RtFormat ==
    /\ rt_pc = "input"
    /\ rt_name' = format_shoot_name(rt_start, rt_end, rt_label)
    /\ rt_pc' = "formatted"
    /\ UNCHANGED <<rt_start, rt_end, rt_label, rt_parsed, mp_vars, sc_vars, cmd_vars,
                   ingest_vars>>

RtParse ==
    /\ rt_pc = "formatted"
    /\ rt_parsed' = parse_shoot_date_range(rt_name)
    /\ rt_pc' = "parsed"
    /\ UNCHANGED <<rt_start, rt_end, rt_label, rt_name, mp_vars, sc_vars, cmd_vars,
                   ingest_vars>>

RtNext == RtFormat \/ RtParse

SpecNames == RtInit /\ [][RtNext]_vars

(***************************************************************************)
(* Properties of the name round trip (checked under SpecNames).            *)
(***************************************************************************)
\* C1: for every pair of dates start <= end and every label,
\* parse_shoot_date_range(format_shoot_name(start, end, label)) returns
\* exactly (start, end), whatever the label: with underscores, or beginning
\* with to_YYYY-MM-DD_.
C1_RoundTripExact ==
    rt_pc = "parsed" => rt_parsed = <<rt_start, rt_end>>

\* C1, the input that fails: one day d and a label that begins with
\* to_<another day>_ ; the name parses as the range from d to that day.
C1_SingleDayReadAsRange ==
    /\ rt_pc = "parsed"
    /\ rt_start = rt_end
    /\ rt_label = <<"t", "o", "_">> \o StrfDate(SecondDate) \o <<"_", "x">>
    /\ rt_start = FirstDate
    /\ rt_parsed = <<FirstDate, SecondDate>>

(***************************************************************************)
(* Properties of ingest_shoot (checked under Spec, or under SpecRerun      *)
(* where a repeated run is meant).  They speak of the invocation and of    *)
(* the file system as it was when the run began.                           *)
(***************************************************************************)
\* The batch: the video files of the source, in the order they are found.
Batch == IF source.exists THEN SelectSeq(source.entries, IsVideoFile) ELSE <<>>

BatchDates == {Batch[i].date : i \in 1..Len(Batch)}

BatchMin ==
    LET dates == BatchDates
    IN  CHOOSE d \in dates : \A e \in dates : d <= e

BatchMax ==
    LET dates == BatchDates
    IN  CHOOSE d \in dates : \A e \in dates : e <= d

\* The files of the batch bear pairwise distinct names.
DistinctNames ==
    \A i, j \in 1..Len(Batch) : i # j => Batch[i].name # Batch[j].name

\* The shoots that exist under root when the run begins: the directories
\* directly under it whose name bears a date or a date range.
ShootsAt(root) ==
    {Last(q) : q \in {p \in fs_dirs0 : /\ p # <<>>
                                        /\ Front(p) = root
                                        /\ parse_shoot_date_range(Last(p)) # None}}

ShootsBefore == ShootsAt(laptop_dest) \cup ShootsAt(archive_raw)

\* The existing shoots whose date range contains the range of the batch.
ContainingShoots ==
    LET first_day == BatchMin
        last_day == BatchMax
    IN  {n \in ShootsBefore :
            LET range == parse_shoot_date_range(n)
            IN  range[1] <= first_day /\ last_day <= range[2]}

\* The file of name and content of f lies directly in the directory d.
HoldsCopy(d, f) ==
    /\ Append(d, f.name) \in DOMAIN fs_files
    /\ fs_files[Append(d, f.name)] = [size |-> f.size, content |-> f.content]

\* C2: in automatic mode, when no existing shoot's date range contains the
\* range of the batch, the files bear pairwise distinct names and every copy
\* (and every mkdir) succeeds, the run completes with the name
\* format_shoot_name(min, max, "Ingest"), has created the staging and the
\* archive shoot folder, has copied every file to both, and reports
\* copied = number of files and skipped = 0.
C2_AutoNewShootCopiesAll ==
    (/\ pc = "done"
     /\ auto
     /\ Batch # <<>>
     /\ ContainingShoots = {}
     /\ DistinctNames
     /\ error_count = 0
     /\ abort_reason # "mkdir")
    => LET new_name == format_shoot_name(BatchMin, BatchMax, IngestLabel)
       IN  /\ outcome = "complete"
           /\ target_shoot_name = new_name
           /\ Append(laptop_dest, new_name) \in fs_dirs \ fs_dirs0
           /\ Append(archive_raw, new_name) \in fs_dirs \ fs_dirs0
           /\ \A i \in 1..Len(Batch) :
                 /\ HoldsCopy(Append(laptop_dest, new_name), Batch[i])
                 /\ HoldsCopy(Append(archive_raw, new_name), Batch[i])
           /\ copied_count = Len(Batch)
           /\ skipped_count = 0

\* C2, its case: an automatic run of two files of two days, beside a shoot
\* of one of the days only, has completed under a new name of the range.
C2_NewRangeShootMade ==
    /\ pc = "done"
    /\ auto
    /\ outcome = "complete"
    /\ Len(Batch) = 2
    /\ DistinctNames
    /\ BatchMin # BatchMax
    /\ ShootsBefore # {}
    /\ ContainingShoots = {}
    /\ error_count = 0
    /\ copied_count = 2
    /\ target_shoot_name = format_shoot_name(FirstDate, SecondDate, IngestLabel)

\* A run of the batch in which every copy succeeded has ended, and the same
\* invocation has been run again to its end.
RerunDone ==
    /\ run >= 2
    /\ pc = "done"
    /\ prev.outcome = "complete"
    /\ prev.error_count = 0
    /\ Batch # <<>>
    /\ DistinctNames

\* C3: ingest is idempotent across runs: after a run of a batch of pairwise
\* distinct names in which every copy succeeded, the same invocation run
\* again terminates as skipped, copies no file and leaves the staging and
\* the archive tree unchanged.
C3_RerunSkipped ==
    RerunDone => /\ outcome = "skipped"
                 /\ copy_log = <<>>
                 /\ fs_dirs = fs_dirs0
                 /\ fs_files = fs_files0

\* C3, what does hold of the repeated run: it ends skipped or complete, calls
\* copy_and_verify for no file, counts no file as copied and changes nothing.
C3_RerunNoEffect ==
    RerunDone => /\ outcome \in {"skipped", "complete"}
                 /\ copy_log = <<>>
                 /\ copied_count = 0
                 /\ fs_dirs = fs_dirs0
                 /\ fs_files = fs_files0

\* C3, the input that fails: --shoot x --force; the repeated run goes through
\* the copy loop and ends complete, every file counted as skipped.
C3_ForcedNameRerunCompletes ==
    /\ RerunDone
    /\ ~auto
    /\ force
    /\ shoot_name = <<"x">>
    /\ outcome = "complete"
    /\ skipped_count = Len(Batch)
    /\ fs_files = fs_files0

\* The date range a shoot name bears contains the range of the batch.
NameContainsBatch(n) ==
    LET range == parse_shoot_date_range(n)
    IN  /\ range # None
        /\ range[1] <= BatchMin
        /\ BatchMax <= range[2]

\* The three cases of C4: the supplied name is an existing shoot whose date
\* range does not contain the batch range; it is no existing shoot and its
\* date prefix does not contain the batch range; it is no existing shoot and
\* has no date prefix that parses.
C4_AbortCases ==
    \/ shoot_name \in ShootsBefore /\ ~NameContainsBatch(shoot_name)
    \/ /\ shoot_name \notin ShootsBefore
       /\ parse_shoot_date_range(shoot_name) # None
       /\ ~NameContainsBatch(shoot_name)
    \/ shoot_name \notin ShootsBefore /\ parse_shoot_date_range(shoot_name) = None

\* C4, as stated: in manual mode without force (the source holding video
\* files, no mkdir refused by the system) ingest_shoot aborts exactly in the
\* three cases, and in every other case it proceeds with the supplied name.
C4_AbortsExactlyInCases ==
    (/\ pc = "done"
     /\ ~auto
     /\ ~force
     /\ Batch # <<>>
     /\ abort_reason # "mkdir")
    => /\ (outcome = "aborted") <=> C4_AbortCases
       /\ ~C4_AbortCases => target_shoot_name = shoot_name

\* C4, amended: in manual mode without force, the source holding video
\* files, the validation of the name aborts the run exactly in the three
\* cases; in every other case the validation passes and the supplied name is
\* the resolved shoot name, and the run can then abort only at the safety
\* check of the destinations or at a mkdir that fails.
C4_ValidationAbortsExactlyInCases ==
    (/\ pc \notin {"idle", "start"}
     /\ ~auto
     /\ ~force
     /\ Batch # <<>>)
    => LET in_cases == C4_AbortCases
       IN  /\ (abort_reason \in {"noname", "validation"}) <=> in_cases
           /\ in_cases => (pc = "done" /\ outcome = "aborted")
           /\ ~in_cases =>
                 /\ target_shoot_name = shoot_name
                 /\ outcome = "aborted" => abort_reason \in {"safety", "mkdir"}

\* C4, its case: the name of an existing shoot whose range does not contain
\* the batch range was supplied without force, and the run has aborted.
C4_ExistingShootRejected ==
    /\ pc = "done"
    /\ ~auto
    /\ ~force
    /\ Batch # <<>>
    /\ shoot_name \in ShootsBefore
    /\ ~NameContainsBatch(shoot_name)
    /\ outcome = "aborted"
    /\ abort_reason = "validation"

\* C5: whenever ingest_shoot ends by a fatal abort (the source directory is
\* missing, the shoot name is missing in manual mode, the validation fails,
\* or the safety check of the destinations fails), no directory has been
\* created and no file copied: the trees are as they were before the run.
C5_FatalAbortChangesNothing ==
    (/\ pc = "done"
     /\ outcome = "aborted"
     /\ abort_reason \in {"source", "noname", "validation", "safety"})
    => /\ fs_dirs = fs_dirs0
       /\ fs_files = fs_files0
       /\ copy_log = <<>>

\* C5, its case: a forced name whose folder lies outside the roots has been
\* stopped by the safety check, after the batch was scanned.
C5_SafetyAbortReached ==
    /\ pc = "done"
    /\ outcome = "aborted"
    /\ abort_reason = "safety"
    /\ force
    /\ Len(files_to_ingest) = 2
    /\ ~IsRelativeTo(Resolve(laptop_shoot_dir), laptop_dest)

\* p lies below root and is not root itself.
ProperDescendant(p, root) == IsRelativeTo(p, root) /\ p # root

\* C6: for every shoot name, ingest_shoot creates a directory or copies a
\* file only if the staging shoot folder is a proper descendant of the
\* staging root and the archive shoot folder a proper descendant of the
\* archive Video/RAW root; otherwise the file system is left as it was.
C6_WritesOnlyBelowRoots ==
    (fs_dirs # fs_dirs0 \/ fs_files # fs_files0)
    => /\ ProperDescendant(Resolve(laptop_shoot_dir), laptop_dest)
       /\ ProperDescendant(Resolve(archive_shoot_dir), archive_raw)

\* C6, the input that fails: --shoot <date>_x/.. without force, the batch of
\* that date; the run has completed and a file of the batch lies directly in
\* the staging root and in the archive Video/RAW root.
C6_CopiedIntoRoots ==
    /\ pc = "done"
    /\ outcome = "complete"
    /\ ~auto
    /\ ~force
    /\ shoot_name = format_shoot_name(FirstDate, FirstDate, <<"x", "/", ".", ".">>)
    /\ Resolve(laptop_shoot_dir) = laptop_dest
    /\ Resolve(archive_shoot_dir) = archive_raw
    /\ Append(laptop_dest, NameA) \in DOMAIN fs_files
    /\ Append(archive_raw, NameA) \in DOMAIN fs_files
    /\ Append(laptop_dest, format_shoot_name(FirstDate, FirstDate, <<"x">>)) \in fs_dirs

\* When the run began, the directory d held a file of the name and of the
\* size of f.
WasDuplicateIn(d, f) ==
    /\ Append(d, f.name) \in DOMAIN fs_files0
    /\ fs_files0[Append(d, f.name)].size = f.size

\* C7: with a non-empty batch, ingest_shoot ends skipped at the planning
\* step only if every file of the batch is already a duplicate in the
\* staging shoot folder and also in the archive shoot folder; with every
\* file in staging and one missing from the archive folder, the run is not
\* skipped.
C7_SkippedOnlyIfInBoth ==
    (pc = "done" /\ outcome = "skipped" /\ Batch # <<>>)
    => \A i \in 1..Len(Batch) :
          /\ WasDuplicateIn(Resolve(laptop_shoot_dir), Batch[i])
          /\ WasDuplicateIn(Resolve(archive_shoot_dir), Batch[i])

\* C7, the input that fails: the shoot exists in staging and in the archive,
\* staging holds every file of the batch, the archive folder lacks one; the
\* run has ended skipped and the archive folder still lacks it.
C7_SkippedWithArchiveIncomplete ==
    /\ pc = "done"
    /\ outcome = "skipped"
    /\ shoot_in_laptop
    /\ shoot_in_archive
    /\ Len(Batch) = 2
    /\ \A i \in 1..Len(Batch) : WasDuplicateIn(Resolve(laptop_shoot_dir), Batch[i])
    /\ \E i \in 1..Len(Batch) :
          /\ ~WasDuplicateIn(Resolve(archive_shoot_dir), Batch[i])
          /\ Append(Resolve(archive_shoot_dir), Batch[i].name) \notin DOMAIN fs_files

\* The part of the file system under the archive root.
ArchiveDirs(dirs) == {p \in dirs : IsRelativeTo(p, archive_dest)}

ArchiveFiles(files) == {<<p, files[p]>> : p \in {q \in DOMAIN files : IsRelativeTo(q, archive_dest)}}

\* The resolved shoot exists in the archive and not in staging when the run
\* begins.
ResolvedArchiveOnly ==
    /\ pc \notin {"idle", "start"}
    /\ target_shoot_name \in ShootsAt(archive_raw) \ ShootsAt(laptop_dest)

\* C8: when the resolved shoot exists in the archive and not in staging,
\* ingest_shoot writes to staging only.  During the whole run nothing under
\* the archive root is created or written, whatever the archive shoot folder
\* holds, and copy_and_verify is called for staging only; the run is not
\* skipped; when it completes, a copy to the staging shoot folder was made
\* for every file of the batch that was no duplicate there, and with no
\* failed copy every file of the batch lies in the staging shoot folder.
C8_ArchiveOnlyWritesStagingOnly ==
    ResolvedArchiveOnly
    => /\ ArchiveDirs(fs_dirs) = ArchiveDirs(fs_dirs0)
       /\ ArchiveFiles(fs_files) = ArchiveFiles(fs_files0)
       /\ \A k \in 1..Len(copy_log) : copy_log[k][2] = "laptop"
       /\ pc = "done" =>
             \/ outcome = "complete"
             \/ outcome = "aborted" /\ abort_reason \in {"validation", "mkdir"}
       /\ (pc = "done" /\ outcome = "complete") =>
             \A i \in 1..Len(Batch) :
                \/ WasDuplicateIn(Resolve(laptop_shoot_dir), Batch[i])
                \/ \E k \in 1..Len(copy_log) :
                      copy_log[k][1] = i /\ copy_log[k][2] = "laptop"
       /\ (pc = "done" /\ outcome = "complete" /\ error_count = 0 /\ DistinctNames) =>
             \A i \in 1..Len(Batch) : HoldsCopy(Resolve(laptop_shoot_dir), Batch[i])

\* C8, its case: the shoot existed in the archive only, its archive folder
\* holding a file of the batch's names; the run has completed with both
\* files of the batch copied to the staging folder it created.
C8_StagingFilledArchiveKept ==
    /\ ResolvedArchiveOnly
    /\ pc = "done"
    /\ outcome = "complete"
    /\ ~copy_to_archive
    /\ Len(Batch) = 2
    /\ copied_count = 2
    /\ Append(Append(archive_raw, target_shoot_name), NameA) \in DOMAIN fs_files0
    /\ Append(laptop_dest, target_shoot_name) \in fs_dirs \ fs_dirs0
    /\ \A i \in 1..Len(Batch) : HoldsCopy(Append(laptop_dest, target_shoot_name), Batch[i])

\* C9: in automatic mode the resolved shoot name is the name of an existing
\* shoot whose date range contains the batch minimum and the batch maximum
\* whenever such a shoot exists (a shoot that only overlaps the batch range
\* is never taken); when none exists it is
\* format_shoot_name(min, max, "Ingest"), which parses back to (min, max).
C9_AutoResolvesContainingShoot ==
    (/\ pc \notin {"idle", "start"}
     /\ auto
     /\ Batch # <<>>)
    => LET containing == ContainingShoots
       IN  /\ containing # {} => target_shoot_name \in containing
           /\ containing = {} =>
                 /\ target_shoot_name = format_shoot_name(BatchMin, BatchMax, IngestLabel)
                 /\ parse_shoot_date_range(target_shoot_name) = <<BatchMin, BatchMax>>

\* C9, its case: beside the shoot that contains the batch range there is a
\* shoot that only overlaps it, listed first, and the run has taken the one
\* that contains it.
C9_ContainingShootTaken ==
    /\ pc = "done"
    /\ auto
    /\ scan_desc
    /\ Len(Batch) = 2
    /\ BatchMin # BatchMax
    /\ ContainingShoots = {PreRange}
    /\ PreSingle \in ShootsAt(laptop_dest)
    /\ PreRange \in ShootsAt(laptop_dest)
    /\ target_shoot_name = PreRange

\* The directory d holds an entry of the name of f, and of its size.
SameNameAndSize(d, f) ==
    \E p \in DOMAIN fs_files : p = Append(d, f.name) /\ fs_files[p].size = f.size

C11_CopiedThenDuplicate ==
    [][pc = "copying" =>
          \A k \in (Len(copy_log) + 1)..Len(copy_log') :
             copy_log'[k][3] =>
                _is_duplicate(files_to_ingest[copy_log'[k][1]],
                              IF copy_log'[k][2] = "laptop" THEN laptop_shoot_dir
                              ELSE archive_shoot_dir,
                              fs_dirs', fs_files')
      ]_vars

\* C11, its case: the first file of the batch has been copied with success
\* to a staging folder that did not hold it, and is a duplicate there now.
C11_FreshCopyIsDuplicate ==
    /\ pc = "copying"
    /\ idx = 1
    /\ Len(copy_log) >= 1
    /\ copy_log[1] = <<1, "laptop", TRUE>>
    /\ ~WasDuplicateIn(Resolve(laptop_shoot_dir), files_to_ingest[1])
    /\ _is_duplicate(files_to_ingest[1], laptop_shoot_dir, fs_dirs, fs_files)

(***************************************************************************)
(* The pattern matcher on its own: _matches_pattern applied to one token   *)
(* of pull --files and one file name, as pull_shoot applies it to every    *)
(* token and every file of the shoot.                                      *)
(***************************************************************************)
\* The tokens: ranges with and without a prefix, tokens that look like
\* ranges and are none, whole file names, numbers, letters.
Patterns ==
    {<<"C", "1", "7", "-", "C", "5", "1">>,
     <<"1", "7", "-", "5", "1">>,
     <<"c", "1", "7", "-", "5", "1">>,
     <<"1", "-", "5">>,
     <<"1", "7", "-", "5", "1", "\n">>,
     <<"5", "1", "-", "1", "7">>,
     <<"C", "1", "7", "-", "D", "5", "1">>,
     <<"c", "1", "7", "-", "C", "5", "1">>,
     <<"C", "5", "1", "-", "C", "1", "7">>,
     <<"1", "7", "-", "c", "5", "1">>,
     <<"C", "2", "0", ".", "m", "p", "4">>,
     <<"c", "2", "0">>,
     <<"2", "0">>,
     <<"0", "0", "2", "0">>,
     <<"7">>,
     <<"X", "Y", "Z">>,
     <<"0", "0", "7", ".", "M", "P", "4">>,
     <<"c", "l", "i", "p", ".", "m", "o", "v">>,
     <<"a", "1", "b", ".", "m", "o", "v">>,
     <<>>}

\* The names of the files of the shoot.
Filenames ==
    {<<"C", "2", "0", ".", "m", "p", "4">>,
     <<"c", "6", "0", ".", "M", "P", "4">>,
     <<"D", "2", "0", ".", "m", "p", "4">>,
     <<"c", "l", "i", "p", ".", "m", "p", "4">>,
     <<"c", "l", "i", "p", ".", "m", "o", "v">>,
     <<"a", "b", "c", "_", "x", "y", "z", "_", "0", "0", "1", ".", "m", "o", "v">>,
     <<"0", "0", "7", ".", "M", "P", "4">>,
     <<"a", "1", "b", ".", "m", "o", "v">>,
     <<"x", "5", "1", "-", "1", "7">>,
     <<"2", "0">>}

MpInit ==
    /\ mp_pc = "input"
    /\ mp_pattern \in Patterns
    /\ mp_filename \in Filenames
    /\ mp_result = FALSE
    /\ RtIdle
    /\ ScIdle
    /\ CmdIdle
    /\ IngestIdle

\* if _matches_pattern(f.name, pattern)
MpMatch ==
    /\ mp_pc = "input"
    /\ mp_result' = _matches_pattern(mp_pattern, mp_filename)
    /\ mp_pc' = "matched"
    /\ UNCHANGED <<mp_pattern, mp_filename, rt_vars, sc_vars, cmd_vars, ingest_vars>>

MpNext == MpMatch

SpecPattern == MpInit /\ [][MpNext]_vars

(***************************************************************************)
(* Properties of the pattern matcher (checked under SpecPattern).          *)
(***************************************************************************)
\* The positions of the digits of a string.
DigitPositions(s) == {i \in 1..Len(s) : IsDigit(s[i])}

HasDigitRun(s) == DigitPositions(s) # {}

\* The number written by the first digit run of a string that has one.
FirstRunValue(s) ==
    LET i == CHOOSE p \in DigitPositions(s) : \A q \in DigitPositions(s) : p <= q
        j == CHOOSE p \in i..Len(s) :
                /\ \A q \in i..p : IsDigit(s[q])
                /\ p = Len(s) \/ ~IsDigit(s[p + 1])
    IN  IntOfDigits(SubSeq(s, i, j))

\* a is a substring of b, letter case apart.
ContainsIgnoringCase(a, b) ==
    \E i \in 1..(Len(b) + 1) : \E j \in (i - 1)..Len(b) :
        LowerStr(SubSeq(b, i, j)) = LowerStr(a)

MpRange == _parse_range_pattern(mp_pattern)

\* C12: for a token that parses as a range, the file name matches iff it has
\* a digit run, the number of its first digit run lies in
\* [start_num, end_num], and it contains the prefix of the token, when there
\* is one, letter case apart; leading zeros of the file number do not count.
C12_RangeMatchesIffNumberInRange ==
    (mp_pc = "matched" /\ MpRange.is_range) =>
        (mp_result <=>
            /\ HasDigitRun(mp_filename)
            /\ MpRange.start_num <= FirstRunValue(mp_filename)
            /\ FirstRunValue(mp_filename) <= MpRange.end_num
            /\ MpRange.prefix # None =>
                   ContainsIgnoringCase(MpRange.prefix, mp_filename))

\* A prefixed range has matched a file, and has rejected a file whose number
\* is in the range for its missing prefix.
C12_PrefixedRangeMatched ==
    /\ mp_pc = "matched"
    /\ MpRange.is_range
    /\ MpRange.prefix # None
    /\ mp_result
    /\ \E f \in Filenames :
          /\ HasDigitRun(f)
          /\ MpRange.start_num <= FirstRunValue(f)
          /\ FirstRunValue(f) <= MpRange.end_num
          /\ ~_matches_pattern(mp_pattern, f)

\* C13: a token that is the whole name of a file matches that file.
C13_ExactNameMatches ==
    (mp_pc = "matched" /\ mp_pattern = mp_filename) => mp_result

\* The token C20.mp4 has been matched against the file C20.mp4 and has not
\* matched it.
C13_ExactNameRejected ==
    /\ mp_pc = "matched"
    /\ mp_pattern = mp_filename
    /\ HasDigitRun(mp_filename)
    /\ ~mp_result

\* The characters of a string that are not digits, in their order.
RECURSIVE NonDigits(_)
NonDigits(s) ==
    IF s = <<>> THEN <<>>
    ELSE IF IsDigit(Head(s)) THEN NonDigits(Tail(s))
    ELSE <<Head(s)>> \o NonDigits(Tail(s))

\* Token and file name both have a digit run, and their first digit runs
\* write the same number.
SameFirstNumber(p, f) ==
    HasDigitRun(p) /\ HasDigitRun(f) /\ FirstRunValue(p) = FirstRunValue(f)

Inverted == StrfDate(SecondDate) \o <<"_", "t", "o", "_">> \o StrfDate(FirstDate) \o <<"_", "x">>

NameX == <<"x">>

\* The entries named n below the root: none, a folder, or a plain file.
ScanEntry(root, n, kind) ==
    [dirs |-> IF kind = "dir" THEN {Append(root, n)} ELSE {},
     files |-> IF kind = "file"
               THEN {<<Append(root, n), [size |-> 1, content |-> "old"]>>} ELSE {}]

\* A disk: which of the two scanned roots exist, and of what kind each of the
\* four names is below each root.
ScanTree(roots, range_kinds, single_kind, x_kinds, inverted_kinds) ==
    LET laptop_there == roots \in {"laptop", "both"}
        raw_there == roots \in {"archive", "both"}
        laptop_entries ==
            IF laptop_there
            THEN {ScanEntry(laptop_dest, PreRange, range_kinds[1]),
                  ScanEntry(laptop_dest, PreSingle, single_kind),
                  ScanEntry(laptop_dest, NameX, x_kinds[1]),
                  ScanEntry(laptop_dest, Inverted, inverted_kinds[1])}
            ELSE {}
        raw_entries ==
            IF raw_there
            THEN {ScanEntry(archive_raw, PreRange, range_kinds[2]),
                  ScanEntry(archive_raw, NameX, x_kinds[2]),
                  ScanEntry(archive_raw, Inverted, inverted_kinds[2])}
            ELSE {}
        entries == laptop_entries \cup raw_entries
        pairs == UNION {e.files : e \in entries}
    IN  [dirs |-> {<<>>, archive_dest}
                    \cup (IF laptop_there THEN {laptop_dest} ELSE {})
                    \cup (IF raw_there THEN {SubSeq(archive_raw, 1, 2), archive_raw} ELSE {})
                    \cup UNION {e.dirs : e \in entries},
         files |-> [p \in {pr[1] : pr \in pairs} |->
                       (CHOOSE pr \in pairs : pr[1] = p)[2]]]

EntryKinds == {"none", "dir", "file"}

ScanTrees ==
    {ScanTree(roots, range_kinds, single_kind, x_kinds, inverted_kinds) :
        roots \in {"laptop", "archive", "both"},
        range_kinds \in EntryKinds \X EntryKinds,
        single_kind \in EntryKinds,
        x_kinds \in {"none", "dir"} \X {"none", "dir"},
        inverted_kinds \in {"none", "dir"} \X {"none", "dir"}}

ScInit ==
    /\ sc_pc = "input"
    /\ sc_shoots = <<>>
    /\ RtIdle
    /\ MpIdle
    /\ CmdIdle
    /\ \E t \in ScanTrees :
          /\ fs_dirs = t.dirs
          /\ fs_files = t.files
          /\ fs_dirs0 = t.dirs
          /\ fs_files0 = t.files
    /\ scan_desc \in BOOLEAN
    /\ source = [exists |-> FALSE, entries |-> <<>>]
    /\ shoot_name = <<>>
    /\ auto = FALSE
    /\ force = FALSE
    /\ pc = "idle"
    /\ LocalsBlank
    /\ run = 1
    /\ prev = [outcome |-> "none", error_count |-> 0, copies |-> 0]

\* existing_shoots = _find_existing_shoots(laptop_dest, archive_dest)
Scan ==
    /\ sc_pc = "input"
    /\ sc_shoots' = _find_existing_shoots(laptop_dest, archive_dest, fs_dirs, fs_files,
                                          scan_desc)
    /\ sc_pc' = "scanned"
    /\ UNCHANGED <<rt_vars, mp_vars, cmd_vars, ingest_vars>>

ScNext == Scan

SpecScan == ScInit /\ [][ScNext]_vars

(***************************************************************************)
(* Properties of the shoot discovery (checked under SpecScan).             *)
(***************************************************************************)
\* The records of the index that carry the name n.
RecordsOf(n) == {i \in 1..Len(sc_shoots) : sc_shoots[i].name = n}

\* The four names of the disks of SpecScan.
ScanNames == {PreRange, PreSingle, NameX, Inverted}

\* C15: the index holds at most one record per shoot name; a name that is a
\* folder below the staging root and below archive/Video/RAW has exactly one
\* record, with both flags true; every record of a staging folder keeps
\* in_laptop true and the date range parsed from its name.
C15_OneRecordPerName ==
    sc_pc = "scanned" =>
        \A n \in ScanNames :
            /\ Cardinality(RecordsOf(n)) <= 1
            /\ (/\ IsDir(Append(laptop_dest, n), fs_dirs)
                /\ parse_shoot_date_range(n) # None) =>
                   /\ Cardinality(RecordsOf(n)) = 1
                   /\ \A i \in RecordsOf(n) :
                         /\ sc_shoots[i].in_laptop
                         /\ sc_shoots[i].date_range = parse_shoot_date_range(n)
                         /\ sc_shoots[i].in_archive
                               <=> IsDir(Append(archive_raw, n), fs_dirs)

\* A shoot folder of both roots has been scanned, next to a shoot folder of
\* the staging root alone.
C15_FolderOfBothRootsScanned ==
    /\ sc_pc = "scanned"
    /\ IsDir(Append(laptop_dest, PreRange), fs_dirs)
    /\ IsDir(Append(archive_raw, PreRange), fs_dirs)
    /\ \E i \in RecordsOf(PreRange) : sc_shoots[i].in_laptop /\ sc_shoots[i].in_archive
    /\ \E i \in RecordsOf(PreSingle) : ~sc_shoots[i].in_archive

\* C16: every date range the resolver uses has start <= end: the range of
\* the batch, and every range parse_shoot_date_range returns for a folder
\* name, the names in range form whose second date precedes the first
\* included.
C16_RangesOrdered ==
    sc_pc = "scanned" =>
        \A i \in 1..Len(sc_shoots) :
            sc_shoots[i].date_range[1] <= sc_shoots[i].date_range[2]

\* The index holds the folder 2025-09-15_to_2025-09-14_x with the range
\* (2025-09-15, 2025-09-14).
C16_InvertedRangeIndexed ==
    /\ sc_pc = "scanned"
    /\ \E i \in RecordsOf(Inverted) :
          sc_shoots[i].date_range = <<SecondDate, FirstDate>>

\* The names of the index.
IndexedNames == {sc_shoots[i].name : i \in 1..Len(sc_shoots)}

\* C20: the index holds exactly the names of the immediate subdirectories of
\* the staging root or of archive/Video/RAW that parse to a date range;
\* in_laptop is true iff the name is a directory below the staging root,
\* in_archive iff it is one below archive/Video/RAW; the disk is as before.
C20_IndexIsParseableFolders ==
    sc_pc = "scanned" =>
        /\ IndexedNames =
              {n \in ScanNames :
                  /\ parse_shoot_date_range(n) # None
                  /\ \/ IsDir(Append(laptop_dest, n), fs_dirs)
                     \/ IsDir(Append(archive_raw, n), fs_dirs)}
        /\ \A i \in 1..Len(sc_shoots) :
              /\ sc_shoots[i].in_laptop
                    <=> IsDir(Append(laptop_dest, sc_shoots[i].name), fs_dirs)
              /\ sc_shoots[i].in_archive
                    <=> IsDir(Append(archive_raw, sc_shoots[i].name), fs_dirs)
        /\ fs_dirs = fs_dirs0
        /\ fs_files = fs_files0

\* The scan has passed over a plain file with a shoot name and over a folder
\* with no date, and has indexed a shoot folder of the archive alone.
C20_FileAndUndatedFolderIgnored ==
    /\ sc_pc = "scanned"
    /\ IsFile(Append(laptop_dest, PreRange), fs_dirs, fs_files)
    /\ IsDir(Append(archive_raw, PreRange), fs_dirs)
    /\ IsDir(Append(laptop_dest, NameX), fs_dirs)
    /\ IsFile(Append(laptop_dest, PreSingle), fs_dirs, fs_files)
    /\ NameX \notin IndexedNames
    /\ PreSingle \notin IndexedNames
    /\ \E i \in RecordsOf(PreRange) : ~sc_shoots[i].in_laptop /\ sc_shoots[i].in_archive

(***************************************************************************)
(* Properties of ingest_shoot, continued (checked under Spec).             *)
(***************************************************************************)
\* C17: in manual mode with force and a shoot name, the source holding
\* video files, the validation never aborts the run, be the name an existing
\* shoot whose range does not contain the batch range, a new name whose date
\* prefix does not contain it, or a name with no date prefix: the supplied
\* name is the resolved shoot name, and the run can abort only at the safety
\* check of the destinations or at a mkdir that fails.
C17_ForcePassesValidation ==
    (/\ pc \notin {"idle", "start"}
     /\ ~auto
     /\ force
     /\ shoot_name # <<>>
     /\ Batch # <<>>)
    => /\ abort_reason \notin {"noname", "validation"}
       /\ target_shoot_name = shoot_name
       /\ outcome = "aborted" => abort_reason \in {"safety", "mkdir"}

\* The name of an existing shoot whose range does not contain the batch
\* range was supplied with force, and the run has copied into it.
C17_ForcedIntoExistingShoot ==
    /\ pc = "done"
    /\ ~auto
    /\ force
    /\ Batch # <<>>
    /\ shoot_name \in ShootsBefore
    /\ ~NameContainsBatch(shoot_name)
    /\ outcome = "complete"
    /\ target_shoot_name = shoot_name
    /\ copied_count > 0

\* The step of the loop examines the file at idx + 1 for the destination:
\* it tests whether the file is a duplicate in the folder and, if it is
\* none, tries the copy, which the log records.
ExaminedFor(dest, dir) ==
    \/ _is_duplicate(files_to_ingest[idx + 1], dir, fs_dirs, fs_files)
    \/ \E k \in (Len(copy_log) + 1)..Len(copy_log') :
          copy_log'[k][1] = idx + 1 /\ copy_log'[k][2] = dest

\* C18: in the copy loop of ingest_shoot a failed copy never stops the
\* batch: whatever failed before, every step of the loop examines the next
\* file for each active destination and goes on to the file after it, or to
\* the summary after the last; the loop runs only while a file is left and
\* the summary is reached only with every file passed; and a run that has
\* entered the loop always reaches the final summary.
C18_FailedCopyNeverStopsBatch ==
    /\ [][pc = "copying" =>
             /\ idx' = idx + 1
             /\ pc' = IF idx' = Len(files_to_ingest) THEN "summary" ELSE "copying"
             /\ ExaminedFor("laptop", laptop_shoot_dir)
             /\ copy_to_archive => ExaminedFor("archive", archive_shoot_dir)
       ]_vars
    /\ [](pc = "copying" => idx < Len(files_to_ingest))
    /\ [](pc = "summary" => idx = Len(files_to_ingest))
    /\ [](pc = "copying" => <>(pc = "done" /\ outcome = "complete"))

\* The copy of the first file has failed, the second file has been copied,
\* and the run has reached its summary.
C18_CopiedAfterFailure ==
    /\ pc = "done"
    /\ outcome = "complete"
    /\ Len(files_to_ingest) = 2
    /\ \E i, j \in 1..Len(copy_log) :
          /\ copy_log[i][1] = 1 /\ ~copy_log[i][3]
          /\ copy_log[j][1] = 2 /\ copy_log[j][3]

\* C19: the error count is the number of files of the batch with a failed
\* copy: each file adds at most one to it, so that the counts of copied,
\* skipped and failed files are each at most the number of files passed.
C19_CountsAtMostFiles ==
    /\ copied_count <= idx
    /\ skipped_count <= idx
    /\ error_count <= idx

\* A batch of one file, both copies of which have failed, has ended with an
\* error count of two.
C19_OneFileTwoErrors ==
    /\ pc = "done"
    /\ outcome = "complete"
    /\ Len(files_to_ingest) = 1
    /\ error_count = 2

\* t is letters, none or some, and then digits, one or more.
IsRangeSide(t) ==
    \E j \in 0..(Len(t) - 1) :
        /\ \A i \in 1..j : IsLetter(t[i])
        /\ \A i \in (j + 1)..Len(t) : IsDigit(t[i])

\* The letters a side of a range begins with, and the number after them.
SideLetters(t) == SelectSeq(t, IsLetter)

SideNumber(t) == IntOfDigits(SelectSeq(t, IsDigit))

\* The token is <letters?><digits>-<letters?><digits>, its first number is
\* at most its second, and its prefixes are both absent, or both present and
\* equal letter case apart, or present on the first side only.
IsRangeToken(s) ==
    \E k \in 1..Len(s) :
        /\ s[k] = "-"
        /\ LET left == SubSeq(s, 1, k - 1)
               right == SubSeq(s, k + 1, Len(s))
           IN  /\ IsRangeSide(left)
               /\ IsRangeSide(right)
               /\ SideNumber(left) <= SideNumber(right)
               /\ \/ SideLetters(right) = <<>>
                  \/ /\ SideLetters(left) # <<>>
                     /\ LowerStr(SideLetters(left)) = LowerStr(SideLetters(right))

\* C21: _parse_range_pattern takes a token for a range iff the token is
\* <letters?><digits>-<letters?><digits> with start_num <= end_num and with
\* both prefixes absent, both present and equal letter case apart, or a
\* prefix on the first side only; every other token it answers with
\* (None, None, None).
C21_RangeIffRangeShape ==
    mp_pc = "matched" =>
        /\ MpRange.is_range <=> IsRangeToken(mp_pattern)
        /\ ~MpRange.is_range => MpRange = NotARange

\* The token 17-51 followed by a line break, which is no
\* <digits>-<digits>, has been taken for the range 17 to 51.
C21_LineBreakTakenForRange ==
    /\ mp_pc = "matched"
    /\ mp_pattern # <<>>
    /\ mp_pattern[Len(mp_pattern)] = "\n"
    /\ ~IsRangeToken(mp_pattern)
    /\ MpRange.is_range
    /\ MpRange.start_num = 17
    /\ MpRange.end_num = 51

\* C21 holds of every token that does not end with a line break.
RangeIffRangeShapeWithoutLineBreak ==
    (mp_pc = "matched" /\ (mp_pattern = <<>> \/ mp_pattern[Len(mp_pattern)] # "\n")) =>
        /\ MpRange.is_range <=> IsRangeToken(mp_pattern)
        /\ ~MpRange.is_range => MpRange = NotARange

\* A file of the name and the size of f lies directly in the directory d.
PresentIn(d, f) ==
    /\ Append(d, f.name) \in DOMAIN fs_files
    /\ fs_files[Append(d, f.name)].size = f.size

\* C22: when a run of ingest_shoot reaches the final summary with an error
\* count of zero, every file of the batch, files of one name in different
\* subfolders of the source included, is present by name and size in the
\* staging shoot folder, and in the archive shoot folder unless the run
\* wrote to staging only: no file of the batch has overwritten another.
C22_NoErrorsAllFilesPresent ==
    (/\ pc = "done"
     /\ outcome = "complete"
     /\ error_count = 0)
    => \A i \in 1..Len(Batch) :
          /\ PresentIn(Resolve(laptop_shoot_dir), Batch[i])
          /\ copy_to_archive => PresentIn(Resolve(archive_shoot_dir), Batch[i])

\* A run in automatic mode has ended without an error on a source that
\* holds a.mp4 and s/a.mp4 of different sizes, has copied both, and the
\* staging folder holds a single a.mp4, of the size of the second.
C22_SameNameOverwritten ==
    /\ pc = "done"
    /\ outcome = "complete"
    /\ error_count = 0
    /\ auto
    /\ Len(Batch) = 2
    /\ Batch[1].name = Batch[2].name
    /\ Batch[1].size # Batch[2].size
    /\ copied_count = 2
    /\ skipped_count = 0
    /\ ~PresentIn(Resolve(laptop_shoot_dir), files_to_ingest[1])
    /\ PresentIn(Resolve(laptop_shoot_dir), files_to_ingest[2])


(***************************************************************************)
(* pull_shoot: vflow pull.  The archive's files of a shoot are copied to   *)
(* the project folder of the work SSD.                                     *)
(***************************************************************************)
\* locations.work_ssd: a directory that exists.
work_ssd_dest == << <<"W">> >>

\* The project's folders.
Folder01 == <<"0", "1", "_", "S", "o", "u", "r", "c", "e">>

Folder02 == <<"0", "2", "_", "R", "e", "s", "o", "l", "v", "e">>

Folder03 == <<"0", "3", "_", "E", "x", "p", "o", "r", "t", "s">>

Folder04 == <<"0", "4", "_", "F", "i", "n", "a", "l", "R", "e", "n", "d", "e", "r", "s">>

Folder05 == <<"0", "5", "_", "G", "r", "a", "d", "e", "d", "_", "S", "e", "l", "e", "c", "t", "s">>

\* archive_path / "Video" / "Graded_Selects"
archive_selects ==
    archive_dest \o << <<"V", "i", "d", "e", "o">>,
                       <<"G", "r", "a", "d", "e", "d", "_", "S", "e", "l", "e", "c", "t", "s">> >>

\* project_dir = work_ssd_path / shoot_name
project_dir(name) == PathJoin(work_ssd_dest, name)

\* Path.mkdir(exist_ok=True): [ok, dirs].  An entry of that name that is no
\* directory and a missing parent both raise.
MkdirExistOk(p, dirs, files) ==
    LET made == OsMkdir(p, dirs, files)
    IN  IF made.res = "ok" THEN [ok |-> TRUE, dirs |-> made.dirs]
        ELSE [ok |-> made.res = "exists" /\ IsDir(p, dirs), dirs |-> dirs]

\* The mkdir(exist_ok=True) calls of a list of folders, up to the first that
\* raises.
RECURSIVE MkdirEach(_, _, _)
MkdirEach(folders, dirs, files) ==
    IF folders = <<>> THEN [ok |-> TRUE, dirs |-> dirs]
    ELSE LET made == MkdirExistOk(Head(folders), dirs, files)
         IN  IF made.ok THEN MkdirEach(Tail(folders), made.dirs, files) ELSE made

\* "Create project structure on the work SSD": [ok, dirs]
create_project_structure(name, dirs, files) ==
    LET source_folder == MkdirParents(Append(project_dir(name), Folder01), dirs, files)
    IN  IF ~source_folder.ok THEN source_folder
        ELSE MkdirEach(<<Append(project_dir(name), Folder02),
                         Append(project_dir(name), Folder03),
                         Append(project_dir(name), Folder04),
                         Append(project_dir(name), Folder05)>>, source_folder.dirs, files)

\* sources_to_pull: the archive folders of the shoot that exist, RAW first.
find_sources_to_pull(st, name, dirs) ==
    LET archive_raw_dir == PathJoin(archive_raw, name)
        archive_selects_dir == PathJoin(archive_selects, name)
    IN  (IF st \in {"raw", "both"} /\ IsDir(archive_raw_dir, dirs)
         THEN <<[label |-> "RAW", archive_dir |-> archive_raw_dir,
                 dest_folder |-> Append(project_dir(name), Folder01)]>>
         ELSE <<>>)
        \o
        (IF st \in {"selects", "both"} /\ IsDir(archive_selects_dir, dirs)
         THEN <<[label |-> "Graded Selects", archive_dir |-> archive_selects_dir,
                 dest_folder |-> Append(project_dir(name), Folder05)]>>
         ELSE <<>>)

\* The files of a folder in the order its listing yields them, each with its
\* name, its size and its content.
FilesOf(d, dirs, files, desc) ==
    LET names == SelectSeq(IterDir(d, dirs, files, desc),
                           LAMBDA n : IsFile(Append(d, n), dirs, files))
    IN  [i \in 1..Len(names) |->
            [name |-> names[i],
             size |-> files[FileAt(Append(d, names[i]), dirs)].size,
             content |-> files[FileAt(Append(d, names[i]), dirs)].content]]

\* all_files = [p for p in archive_dir.iterdir()
\*              if p.is_file() and p.suffix.lower() in video_extensions]
all_video_files(archive_dir, dirs, files, desc) ==
    SelectSeq(FilesOf(archive_dir, dirs, files, desc), IsVideoFile)

\* list(dict.fromkeys(s)): the first occurrence of every element, in order.
RECURSIVE FromKeys(_)
FromKeys(s) ==
    IF s = <<>> THEN <<>>
    ELSE LET before == FromKeys(Front(s))
         IN  IF \E i \in 1..Len(before) : before[i] = Last(s) THEN before
             ELSE Append(before, Last(s))

\* files_to_copy.extend(matching), for each pattern in turn
RECURSIVE ExtendMatching(_, _)
ExtendMatching(patterns, all_files) ==
    IF patterns = <<>> THEN <<>>
    ELSE SelectSeq(all_files, LAMBDA f : _matches_pattern(Head(patterns), f.name))
         \o ExtendMatching(Tail(patterns), all_files)

\* apply_filter that keeps a file once for every pattern that matches it.
apply_filter_with_duplicates(patterns, all_files) ==
    IF patterns # <<>> THEN ExtendMatching(patterns, all_files) ELSE all_files

\* "Apply filter if provided": files_to_copy
apply_filter(patterns, all_files) ==
    IF patterns # <<>> THEN FromKeys(ExtendMatching(patterns, all_files)) ELSE all_files

\* "Pre-check: count files that already exist": whether f is in the
\* destination folder under its name and with its size.
already_exists(f, dest_folder, dirs, files) ==
    /\ IsDir(dest_folder, dirs)
    /\ IsFile(Append(dest_folder, f.name), dirs, files)
    /\ f.size = StatSize(Append(dest_folder, f.name), dirs, files)

\* pull_one_file that copies over what the destination holds.
pull_one_file_overwriting(f, dest_folder, dirs, files, io) ==
    IF io = "exists_raises" THEN [what |-> "raised", files |-> files]
    ELSE LET copy == copy_and_verify(f, dest_folder, dirs, files, io = "ok")
         IN  [what |-> IF copy.ok THEN "written" ELSE "failed", files |-> copy.files]

\* The body of the copy loop for one file: [what, files].  io is what the
\* file system does: "ok", "copy_fails" (shutil.copy2 raises inside
\* copy_and_verify) or "exists_raises" (dest_path.exists() raises).
pull_one_file(f, dest_folder, dirs, files, io) ==
    IF io = "exists_raises" THEN [what |-> "raised", files |-> files]
    ELSE IF Exists(Append(dest_folder, f.name), dirs, files)
    THEN [what |-> "skipped", files |-> files]
    ELSE LET copy == copy_and_verify(f, dest_folder, dirs, files, io = "ok")
         IN  [what |-> IF copy.ok THEN "written" ELSE "failed", files |-> copy.files]

\* What pull_shoot leaves alone besides the file system.
beside_pull ==
    <<rt_vars, mp_vars, sc_vars, ingest_rest, prep_vars, arch_vars, cons_vars, cl_vars>>

\* The entries of pull_log of one kind.
PullLogged(what) == {i \in 1..Len(pull_log) : pull_log[i][3] = what}

\* pull_shoot up to the loop over the sources: the check of --source, the
\* project's folders, and the sources.
PullStart ==
    /\ pull_pc = "start"
    /\ \E made \in {create_project_structure(shoot_name, fs_dirs, fs_files)} :
          IF source_type \notin {"raw", "selects", "both"}
          THEN /\ pull_pc' = "done"
               /\ pull_outcome' = "aborted"
               /\ UNCHANGED <<sources_to_pull, fs_dirs>>
          ELSE IF ~made.ok
          THEN /\ pull_pc' = "done"
               /\ pull_outcome' = "aborted"
               /\ fs_dirs' = made.dirs
               /\ UNCHANGED sources_to_pull
          ELSE /\ fs_dirs' = made.dirs
               /\ sources_to_pull' = find_sources_to_pull(source_type, shoot_name, made.dirs)
               /\ pull_pc' = IF sources_to_pull' = <<>> THEN "done" ELSE "select"
               /\ pull_outcome' = IF sources_to_pull' = <<>> THEN "aborted" ELSE "none"
    /\ UNCHANGED <<source_type, files_filter, source_idx, files_to_copy, files_already_exist,
                   files_to_process, file_idx, total_copied, total_skipped, total_errors,
                   pull_log>>
    /\ UNCHANGED <<beside_pull, fs_files>>

\* The head of the loop over the sources, down to the copy loop: the files
\* of the source, the filter, the pre-check.  A source with nothing to copy
\* is left at once ("continue").
PullSelect ==
    /\ pull_pc = "select"
    /\ source_idx < Len(sources_to_pull)
    /\ \E src \in {sources_to_pull[source_idx + 1]} :
       \E all_files \in {all_video_files(src.archive_dir, fs_dirs, fs_files, scan_desc)} :
       \E chosen \in {IF all_files = <<>> THEN <<>> ELSE apply_filter(files_filter, all_files)} :
       \E process \in {SelectSeq(chosen, LAMBDA f :
                          ~already_exists(f, src.dest_folder, fs_dirs, fs_files))} :
          /\ files_to_copy' = chosen
          /\ files_already_exist' = Len(chosen) - Len(process)
          /\ files_to_process' = process
          /\ file_idx' = 0
          /\ IF process = <<>>
             THEN /\ source_idx' = source_idx + 1
                  /\ pull_pc' = IF source_idx + 1 = Len(sources_to_pull) THEN "summary"
                                ELSE "select"
             ELSE /\ pull_pc' = "copy"
                  /\ UNCHANGED source_idx
    /\ UNCHANGED <<pull_outcome, source_type, files_filter, sources_to_pull, total_copied,
                   total_skipped, total_errors, pull_log>>
    /\ UNCHANGED <<beside_pull, fs_vars>>

\* One turn of the copy loop.
PullCopy ==
    /\ pull_pc = "copy"
    /\ file_idx < Len(files_to_process)
    /\ \E io \in {"ok", "copy_fails", "exists_raises"} :
       \E src \in {sources_to_pull[source_idx + 1]} :
       \E f \in {files_to_process[file_idx + 1]} :
       \E did \in {pull_one_file(f, src.dest_folder, fs_dirs, fs_files, io)} :
          /\ io # "ok" =>
                Cardinality(PullLogged("failed") \cup PullLogged("raised")) < MaxCopyFailures
          /\ fs_files' = did.files
          /\ total_copied' = total_copied + (IF did.what \in {"written", "failed"} THEN 1 ELSE 0)
          /\ total_skipped' = total_skipped + (IF did.what = "skipped" THEN 1 ELSE 0)
          /\ total_errors' = total_errors + (IF did.what = "raised" THEN 1 ELSE 0)
          /\ pull_log' = Append(pull_log, <<src.label, f.name, did.what>>)
    /\ file_idx' = file_idx + 1
    /\ pull_pc' = IF file_idx + 1 = Len(files_to_process) THEN "next" ELSE "copy"
    /\ UNCHANGED <<pull_outcome, source_type, files_filter, sources_to_pull, source_idx,
                   files_to_copy, files_already_exist, files_to_process>>
    /\ UNCHANGED <<beside_pull, fs_dirs>>

\* After the copy loop of a source: total_skipped += files_already_exist
PullEndSource ==
    /\ pull_pc = "next"
    /\ total_skipped' = total_skipped + files_already_exist
    /\ source_idx' = source_idx + 1
    /\ pull_pc' = IF source_idx + 1 = Len(sources_to_pull) THEN "summary" ELSE "select"
    /\ UNCHANGED <<pull_outcome, source_type, files_filter, sources_to_pull, files_to_copy,
                   files_already_exist, files_to_process, file_idx, total_copied,
                   total_errors, pull_log>>
    /\ UNCHANGED <<beside_pull, fs_vars>>

\* "PULL COMPLETE"
PullSummary ==
    /\ pull_pc = "summary"
    /\ pull_pc' = "done"
    /\ pull_outcome' = "complete"
    /\ UNCHANGED <<source_type, files_filter, sources_to_pull, source_idx, files_to_copy,
                   files_already_exist, files_to_process, file_idx, total_copied,
                   total_skipped, total_errors, pull_log>>
    /\ UNCHANGED <<beside_pull, fs_vars>>

\* The clips of the archive.
ClipC20 == <<"C", "2", "0", ".", "m", "p", "4">>

Clipc60 == <<"c", "6", "0", ".", "M", "P", "4">>

\* The shoot that is pulled.
PullShoot == <<"S">>

\* What archive/Video/RAW/<shoot> may hold: clips and a file that is no video.
RawFiles ==
    {[name |-> ClipC20, size |-> 1, content |-> "r20"],
     [name |-> Clipc60, size |-> 2, content |-> "r60"],
     [name |-> NameT, size |-> 1, content |-> "T"]}

\* What archive/Video/Graded_Selects/<shoot> holds when it exists.
SelectsFiles == {[name |-> ClipC20, size |-> 3, content |-> "g20"]}

\* An archive folder of the shoot that does not exist.
NoFolder == [exists |-> FALSE, holds |-> {}]

\* The file system before a pull.  raw is the shoot's RAW folder, selects its
\* Graded_Selects folder: whether it exists, and the files it holds.  work is the state of the work SSD: "none" for no project, "empty"
\* for a project with 01_Source and nothing in it, "same" and "other" for
\* 01_Source with the first clip's name at the archive's size and at another
\* size, "file" for a file where the project folder goes, "selects_file" for
\* a file where 05_Graded_Selects goes.
PullTree(raw, selects, work) ==
    LET video == Append(archive_dest, <<"V", "i", "d", "e", "o">>)
        raw_dir == Append(archive_raw, PullShoot)
        selects_dir == Append(archive_selects, PullShoot)
        project == Append(work_ssd_dest, PullShoot)
        source_folder == Append(project, Folder01)
        archive_dirs ==
            (IF raw.exists THEN {video, archive_raw, raw_dir} ELSE {})
            \cup (IF selects.exists THEN {video, archive_selects, selects_dir} ELSE {})
        work_dirs ==
            IF work \in {"none", "file"} THEN {}
            ELSE IF work = "selects_file" THEN {project}
            ELSE {project, source_folder}
        archive_files ==
            {<<Append(raw_dir, f.name), [size |-> f.size, content |-> f.content]>> :
                f \in raw.holds}
            \cup {<<Append(selects_dir, f.name), [size |-> f.size, content |-> f.content]>> :
                     f \in selects.holds}
        work_files ==
            IF work = "same"
            THEN {<<Append(source_folder, ClipC20), [size |-> 1, content |-> "old"]>>}
            ELSE IF work = "other"
            THEN {<<Append(source_folder, ClipC20), [size |-> 2, content |-> "old"]>>}
            ELSE IF work = "file" THEN {<<project, [size |-> 1, content |-> "old"]>>}
            ELSE IF work = "selects_file"
            THEN {<<Append(project, Folder05), [size |-> 1, content |-> "old"]>>}
            ELSE {}
        pairs == archive_files \cup work_files
    IN  [dirs |-> {<<>>, archive_dest, work_ssd_dest} \cup archive_dirs \cup work_dirs,
         files |-> [p \in {pr[1] : pr \in pairs} |-> (CHOOSE pr \in pairs : pr[1] = p)[2]]]

PullTrees ==
    {PullTree(raw, selects, work) :
        raw \in {NoFolder} \cup {[exists |-> TRUE, holds |-> S] : S \in SUBSET RawFiles},
        selects \in {NoFolder, [exists |-> TRUE, holds |-> SelectsFiles]},
        work \in {"none", "empty", "same", "other", "file", "selects_file"}}

\* The values of --source: the three that are accepted and one that is not.
SourceTypes == {"raw", "selects", "both", "x"}

\* The values of --files: none, a range, two numbers in the reverse of the
\* listing's order, two tokens that match the same clip, a token that matches
\* no clip.
FileFilters ==
    {<<>>,
     <<<<"C", "1", "7", "-", "C", "5", "1">>>>,
     <<<<"6", "0">>, <<"2", "0">>>>,
     <<<<"2", "0">>, <<"C", "1", "7", "-", "C", "5", "1">>, <<"6", "0">>>>,
     <<<<"X", "Y", "Z">>>>}

\* The ingest command is not run: its variables other than the file system
\* and the arguments it shares.
IngestUnused ==
    /\ source = [exists |-> FALSE, entries |-> <<>>]
    /\ auto = FALSE
    /\ force = FALSE
    /\ pc = "idle"
    /\ LocalsBlank
    /\ run = 1
    /\ prev = [outcome |-> "none", error_count |-> 0, copies |-> 0]

PullInit ==
    /\ pull_pc = "start"
    /\ source_type \in SourceTypes
    /\ files_filter \in FileFilters
    /\ PullBlank
    /\ shoot_name = PullShoot
    /\ scan_desc \in BOOLEAN
    /\ \E t \in PullTrees :
          /\ fs_dirs = t.dirs
          /\ fs_files = t.files
          /\ fs_dirs0 = t.dirs
          /\ fs_files0 = t.files
    /\ IngestUnused
    /\ RtIdle
    /\ MpIdle
    /\ ScIdle
    /\ PrepIdle
    /\ ArchIdle
    /\ ConsIdle
    /\ ClIdle

PullNext == PullStart \/ PullSelect \/ PullCopy \/ PullEndSource \/ PullSummary

SpecPull == PullInit /\ [][PullNext]_vars

(***************************************************************************)
(* Claims on pull_shoot.                                                   *)
(***************************************************************************)
\* The files that are on the disk and were not before the run.
FilesAdded == DOMAIN fs_files \ DOMAIN fs_files0

\* The source whose files are being selected or copied.
PullSource == sources_to_pull[source_idx + 1]

\* C23: pull_shoot only adds.  At every point of a run every directory and
\* every file that was on the disk before, under the archive or in the
\* project on the work SSD, is still there with the size and the content it
\* had: nothing is moved, removed or overwritten, whether or not a file of
\* the destination folder has the size of the archive's file of that name.
C23_PullOnlyAdds ==
    /\ fs_dirs0 \subseteq fs_dirs
    /\ \A p \in DOMAIN fs_files0 : p \in DOMAIN fs_files /\ fs_files[p] = fs_files0[p]

\* A pull has ended after it found in 01_Source a file of the name of an
\* archive clip and of another size, left it alone, and wrote another clip
\* next to it.
C23_OtherSizeLeftAlone ==
    /\ pull_pc = "done"
    /\ pull_outcome = "complete"
    /\ \E i \in PullLogged("skipped") :
          /\ pull_log[i][1] = "RAW"
          /\ pull_log[i][2] = ClipC20
          /\ fs_files0[work_ssd_dest \o <<PullShoot, Folder01, ClipC20>>].size = 2
          /\ fs_files0[archive_raw \o <<PullShoot, ClipC20>>].size = 1
    /\ PullLogged("written") # {}

\* C24: when a pull has ended, the count of files copied is the number of
\* files the run has written, and every copy that failed is counted as an
\* error.
C24_CopiedCountIsFilesWritten ==
    (pull_pc = "done" /\ pull_outcome = "complete")
    => /\ total_copied = Cardinality(FilesAdded)
       /\ total_errors >= Cardinality(PullLogged("failed"))

\* A pull has ended with one clip to copy whose copy failed: it reports one
\* file copied and no error, and no file has been written.
C24_FailedCopyCountedAsCopied ==
    /\ pull_pc = "done"
    /\ pull_outcome = "complete"
    /\ Len(pull_log) = 1
    /\ pull_log[1][3] = "failed"
    /\ total_copied = 1
    /\ total_errors = 0
    /\ FilesAdded = {}

\* The video files of the source at hand, in the order of the listing.
PullVideoFiles == all_video_files(PullSource.archive_dir, fs_dirs0, fs_files0, scan_desc)

\* The number of the first token of the filter that matches a name, 0 when
\* none does.
FirstMatchingToken(name) ==
    LET matching == {k \in 1..Len(files_filter) : _matches_pattern(files_filter[k], name)}
    IN  IF matching = {} THEN 0 ELSE CHOOSE k \in matching : \A j \in matching : k <= j

\* Where a name stands in the listing of the video files of the source.
ListingPlace(name) ==
    CHOOSE i \in 1..Len(PullVideoFiles) : PullVideoFiles[i].name = name

\* C25: the files selected from a source.  With tokens they are the video
\* files of the source that match at least one token, each once, ordered by
\* the first token that matches and, for one token, as the listing has them;
\* with no token they are all the video files of the source, as listed.
C25_SelectionIsFirstMatchOrder ==
    pull_pc \in {"copy", "next"}
    => LET all_files == PullVideoFiles
           chosen == files_to_copy
       IN  /\ \A i \in 1..Len(chosen) : \E j \in 1..Len(all_files) : all_files[j] = chosen[i]
           /\ \A i, j \in 1..Len(chosen) : chosen[i] = chosen[j] => i = j
           /\ IF files_filter = <<>> THEN chosen = all_files
              ELSE /\ \A j \in 1..Len(all_files) :
                         (\E i \in 1..Len(chosen) : chosen[i] = all_files[j])
                         <=> FirstMatchingToken(all_files[j].name) # 0
                   /\ \A i, j \in 1..Len(chosen) :
                         i < j =>
                            \/ FirstMatchingToken(chosen[i].name)
                                  < FirstMatchingToken(chosen[j].name)
                            \/ /\ FirstMatchingToken(chosen[i].name)
                                     = FirstMatchingToken(chosen[j].name)
                               /\ ListingPlace(chosen[i].name) < ListingPlace(chosen[j].name)

\* The copy loop is entered with the filter 20, C17-C51, 60 on a source that
\* lists C20.mp4 before c60.MP4: both tokens 20 and C17-C51 match C20.mp4,
\* and the selection is C20.mp4 once, then c60.MP4.
C25_TwoTokensOneClip ==
    /\ pull_pc = "copy"
    /\ Len(files_filter) = 3
    /\ _matches_pattern(files_filter[1], ClipC20)
    /\ _matches_pattern(files_filter[2], ClipC20)
    /\ Len(files_to_copy) = 2
    /\ files_to_copy[1].name = ClipC20
    /\ files_to_copy[2].name = Clipc60

(***************************************************************************)
(* prep_shoot: vflow prep.  The video files of a shoot folder of the       *)
(* ingest area are moved to the project folder of the work SSD.            *)
(***************************************************************************)
\* What prep_shoot leaves alone besides the file system.
beside_prep ==
    <<rt_vars, mp_vars, sc_vars, ingest_rest, pull_own, arch_vars, cons_vars, cl_vars>>

\* source_shoot_dir = laptop_ingest_path / shoot_name
source_shoot_dir(name) == PathJoin(laptop_dest, name)

\* shutil.move(src, dst) of a file: [ok, files].  Into a directory the file
\* keeps its name, and an entry of that name there raises; io_ok is whether
\* the move itself goes through, and nothing changes when it does not.
shutil_move(src, dst, dirs, files, io_ok) ==
    LET real_dst == IF IsDir(dst, dirs) THEN Append(dst, Last(src)) ELSE dst
        can_move ==
            /\ io_ok
            /\ IsFile(src, dirs, files)
            /\ real_dst # <<>>
            /\ Last(real_dst) # DotDot
            /\ WalkDirs(<<>>, Front(real_dst), dirs).ok
            /\ ~IsDir(real_dst, dirs)
            /\ IsDir(dst, dirs) => ~Exists(real_dst, dirs, files)
        from == FileAt(src, dirs)
        to == FileAt(real_dst, dirs)
    IN  IF ~can_move THEN [ok |-> FALSE, files |-> files]
        ELSE [ok |-> TRUE,
              files |-> [p \in (DOMAIN files \ {from}) \cup {to} |->
                            IF p = to THEN files[from] ELSE files[p]]]

\* The move of a file over what the destination folder holds.
move_replacing(src, dst, dirs, files, io_ok) ==
    LET from == FileAt(src, dirs)
        to == FileAt(Append(dst, Last(src)), dirs)
    IN  IF ~io_ok THEN [ok |-> FALSE, files |-> files]
        ELSE [ok |-> TRUE,
              files |-> [p \in (DOMAIN files \ {from}) \cup {to} |->
                            IF p = to THEN files[from] ELSE files[p]]]

\* prep_one_file that moves without a look at the destination.
prep_one_file_unchecked(f, from_dir, source_folder, dirs, files, io) ==
    IF io = "exists_raises" THEN [what |-> "raised", files |-> files]
    ELSE LET move == move_replacing(Append(from_dir, f.name), source_folder, dirs, files,
                                    io = "ok")
         IN  [what |-> IF move.ok THEN "moved" ELSE "raised", files |-> move.files]

\* The body of the move loop for one file: [what, files].  io is what the
\* file system does: "ok", "move_fails" (shutil.move raises) or
\* "exists_raises" (dest_path.exists() raises).
prep_one_file(f, from_dir, source_folder, dirs, files, io) ==
    IF io = "exists_raises" THEN [what |-> "raised", files |-> files]
    ELSE IF Exists(Append(source_folder, f.name), dirs, files)
    THEN [what |-> "skipped", files |-> files]
    ELSE LET move == shutil_move(Append(from_dir, f.name), source_folder, dirs, files,
                                 io = "ok")
         IN  [what |-> IF move.ok THEN "moved" ELSE "raised", files |-> move.files]

\* prep_shoot up to the move loop: the shoot folder, the project's folders
\* (the same lines as in pull_shoot), the files to move, the pre-check.
PrepStart ==
    /\ prep_pc = "start"
    /\ IF ~IsDir(source_shoot_dir(shoot_name), fs_dirs)
       THEN /\ prep_pc' = "done"
            /\ prep_outcome' = "aborted"
            /\ UNCHANGED <<files_to_move, batch_vars, fs_dirs>>
       ELSE \E made \in {create_project_structure(shoot_name, fs_dirs, fs_files)} :
            \E found \in {all_video_files(source_shoot_dir(shoot_name), made.dirs, fs_files,
                                          scan_desc)} :
            \E process \in {SelectSeq(found, LAMBDA f :
                               ~already_exists(f, Append(project_dir(shoot_name), Folder01),
                                               made.dirs, fs_files))} :
               /\ fs_dirs' = made.dirs
               /\ IF ~made.ok
                  THEN /\ prep_pc' = "done"
                       /\ prep_outcome' = "aborted"
                       /\ UNCHANGED <<files_to_move, batch_vars>>
                  ELSE /\ files_to_move' = found
                       /\ files_already_exist' = IF found = <<>> THEN 0
                                                 ELSE Len(found) - Len(process)
                       /\ files_to_process' = IF found = <<>> THEN <<>> ELSE process
                       /\ file_idx' = 0
                       /\ prep_pc' = IF process = <<>> THEN "done" ELSE "move"
                       /\ prep_outcome' = IF process = <<>> THEN "nothing" ELSE "none"
    /\ UNCHANGED <<moved_count, prep_error_count, move_log>>
    /\ UNCHANGED <<beside_prep, fs_files>>

\* One turn of the move loop.
PrepMove ==
    /\ prep_pc = "move"
    /\ file_idx < Len(files_to_process)
    /\ \E io \in {"ok", "move_fails", "exists_raises"} :
       \E f \in {files_to_process[file_idx + 1]} :
       \E did \in {prep_one_file(f, source_shoot_dir(shoot_name),
                                 Append(project_dir(shoot_name), Folder01),
                                 fs_dirs, fs_files, io)} :
          /\ io # "ok" => prep_error_count < MaxCopyFailures
          /\ fs_files' = did.files
          /\ moved_count' = moved_count + (IF did.what = "moved" THEN 1 ELSE 0)
          /\ prep_error_count' = prep_error_count + (IF did.what = "raised" THEN 1 ELSE 0)
          /\ move_log' = Append(move_log, <<f.name, did.what>>)
    /\ file_idx' = file_idx + 1
    /\ prep_pc' = IF file_idx + 1 = Len(files_to_process) THEN "summary" ELSE "move"
    /\ UNCHANGED <<prep_outcome, files_to_move, files_already_exist, files_to_process>>
    /\ UNCHANGED <<beside_prep, fs_dirs>>

\* "PREP COMPLETE"
PrepSummary ==
    /\ prep_pc = "summary"
    /\ prep_pc' = "done"
    /\ prep_outcome' = "complete"
    /\ UNCHANGED <<files_to_move, moved_count, prep_error_count, move_log, batch_vars>>
    /\ UNCHANGED <<beside_prep, fs_vars>>

\* What the shoot folder of the ingest area may hold: clips and a file that
\* is no video.
IngestFiles ==
    {[name |-> ClipC20, size |-> 1, content |-> "i20"],
     [name |-> Clipc60, size |-> 2, content |-> "i60"],
     [name |-> NameT, size |-> 1, content |-> "T"]}

\* The file system before a prep: the shoot folder of the ingest area next
\* to a work SSD in one of the states of PullTree.
PrepTree(ingest, work) ==
    LET shoot_dir == Append(laptop_dest, PullShoot)
        ssd == PullTree(NoFolder, NoFolder, work)
        ingest_files ==
            {<<Append(shoot_dir, f.name), [size |-> f.size, content |-> f.content]>> :
                f \in ingest.holds}
    IN  [dirs |-> ssd.dirs \cup {laptop_dest}
                    \cup (IF ingest.exists THEN {shoot_dir} ELSE {}),
         files |-> [p \in DOMAIN ssd.files \cup {pr[1] : pr \in ingest_files} |->
                       IF p \in DOMAIN ssd.files THEN ssd.files[p]
                       ELSE (CHOOSE pr \in ingest_files : pr[1] = p)[2]]]

PrepTrees ==
    {PrepTree(ingest, work) :
        ingest \in {NoFolder} \cup {[exists |-> TRUE, holds |-> S] : S \in SUBSET IngestFiles},
        work \in {"none", "empty", "same", "other", "file", "selects_file"}}

PrepInit ==
    /\ prep_pc = "start"
    /\ PrepBlank
    /\ shoot_name = PullShoot
    /\ scan_desc \in BOOLEAN
    /\ \E t \in PrepTrees :
          /\ fs_dirs = t.dirs
          /\ fs_files = t.files
          /\ fs_dirs0 = t.dirs
          /\ fs_files0 = t.files
    /\ IngestUnused
    /\ RtIdle
    /\ MpIdle
    /\ ScIdle
    /\ PullIdle
    /\ ArchIdle
    /\ ConsIdle
    /\ ClIdle

PrepNext == PrepStart \/ PrepMove \/ PrepSummary

SpecPrep == PrepInit /\ [][PrepNext]_vars

\* The files of the shoot folder of the ingest area before the run.
IngestBefore ==
    {p \in DOMAIN fs_files0 : Front(p) = source_shoot_dir(shoot_name)}

\* Where a file of the ingest area goes in the project.
InProject(p) == project_dir(shoot_name) \o <<Folder01, Last(p)>>

\* The file that was at p before the run is at q now.
NowAt(p, q) == q \in DOMAIN fs_files /\ fs_files[q] = fs_files0[p]

\* C26: at every point of a prep, every file the ingest shoot folder held
\* is either still there or in 01_Source under its name, never both and
\* never neither; it is in 01_Source only if it is a video file and nothing
\* of its name was there before; every file of the project is as it was,
\* so a file of the same name is never overwritten, whatever its size; and
\* when the run ends, the count of files already in the project is the
\* number of video files of ingest whose name and size 01_Source held.
C26_MovedOnlyToFreeName ==
    /\ \A p \in IngestBefore :
          /\ NowAt(p, p) # NowAt(p, InProject(p))
          /\ NowAt(p, InProject(p)) =>
                /\ InProject(p) \notin DOMAIN fs_files0
                /\ IsVideoFile([name |-> Last(p)])
    /\ \A q \in DOMAIN fs_files0 \ IngestBefore : NowAt(q, q)
    /\ (prep_pc = "done" /\ prep_outcome \in {"nothing", "complete"}) =>
          files_already_exist =
             Cardinality({p \in IngestBefore :
                             /\ IsVideoFile([name |-> Last(p)])
                             /\ InProject(p) \in DOMAIN fs_files0
                             /\ fs_files0[InProject(p)].size = fs_files0[p].size})

\* A prep has ended after it moved one clip and left another in ingest
\* because 01_Source held a file of its name and of another size.
C26_OtherSizeStaysInIngest ==
    /\ prep_pc = "done"
    /\ prep_outcome = "complete"
    /\ \E i, j \in 1..Len(move_log) :
          /\ move_log[i] = <<ClipC20, "skipped">>
          /\ move_log[j] = <<Clipc60, "moved">>
    /\ fs_files0[InProject(<<ClipC20>>)].size # fs_files0[source_shoot_dir(shoot_name)
                                                            \o <<ClipC20>>].size
    /\ files_already_exist = 0

(***************************************************************************)
(* archive_file: vflow archive.  A final render is tagged and copied to    *)
(* the archive, then the source clips of the project are deleted.          *)
(***************************************************************************)
\* What archive_file leaves alone besides the file system.
beside_arch ==
    <<rt_vars, mp_vars, sc_vars, ingest_rest, pull_vars, prep_vars, cons_vars, cl_vars>>

\* export_file_path = work_ssd_path / shoot_name / "03_Exports" / file_name
export_file_path(name, file) == PathJoin(Append(project_dir(name), Folder03), file)

\* archive_graded_dir = archive_path / "Video" / "Graded"
archive_graded_dir ==
    archive_dest \o << <<"V", "i", "d", "e", "o">>, <<"G", "r", "a", "d", "e", "d">> >>

\* Path.stem
StemOf(name) == SubSeq(name, 1, Len(name) - Len(SuffixOf(name)))

\* source_file.with_name(f"{source_file.stem}_tagged{source_file.suffix}")
tagged_path_of(source_file) ==
    Append(Front(source_file),
           StemOf(Last(source_file)) \o <<"_", "t", "a", "g", "g", "e", "d">>
             \o SuffixOf(Last(source_file)))

\* Path.unlink() of a file
Unlink(p, dirs, files) == [q \in DOMAIN files \ {FileAt(p, dirs)} |-> files[q]]

\* _tag_media_file: [ok, files].  tool is what the external tools do: "ok",
\* "ffmpeg_fails", or "xattr_fails" (the Finder tags, which is no reason to
\* stop).  ffmpeg writes the export with the tags to tagged_file_path, a new
\* file somewhat larger than the export; it writes nothing over a directory,
\* and over a file only when it is told to, which the choice of tool covers.
_tag_media_file(source_file, dirs, files, tool) ==
    LET out == tagged_path_of(source_file)
        can_tag ==
            /\ tool # "ffmpeg_fails"
            /\ IsFile(source_file, dirs, files)
            /\ ~IsDir(out, dirs)
    IN  IF ~can_tag THEN [ok |-> FALSE, files |-> files]
        ELSE [ok |-> TRUE,
              files |-> [p \in DOMAIN files \cup {FileAt(out, dirs)} |->
                            IF p = FileAt(out, dirs)
                            THEN [size |-> StatSize(source_file, dirs, files) + 1,
                                  content |-> "tagged"]
                            ELSE files[p]]]

\* The video files of 01_Source in the order of the listing.
source_video_files(name, dirs, files, desc) ==
    IF IsDir(Append(project_dir(name), Folder01), dirs)
    THEN all_video_files(Append(project_dir(name), Folder01), dirs, files, desc)
    ELSE <<>>

\* "Clean up source files": the files after the first k video files of
\* 01_Source are unlinked.
clean_up_source(name, dirs, files, desc, k) ==
    LET listed == source_video_files(name, dirs, files, desc)
        gone == {FileAt(project_dir(name) \o <<Folder01, listed[i].name>>, dirs) : i \in 1..k}
    IN  [q \in DOMAIN files \ gone |-> files[q]]

\* Steps 1 and 2 of archive_file: the export exists, the archive folder is
\* made.
ArchStart ==
    /\ arch_pc = "start"
    /\ \E made \in {MkdirParents(archive_graded_dir, fs_dirs, fs_files)} :
          IF ~Exists(export_file_path(shoot_name, file_name), fs_dirs, fs_files)
          THEN /\ arch_pc' = "done"
               /\ arch_outcome' = "aborted"
               /\ UNCHANGED fs_dirs
          ELSE /\ fs_dirs' = made.dirs
               /\ arch_pc' = IF made.ok THEN "tag" ELSE "done"
               /\ arch_outcome' = IF made.ok THEN "none" ELSE "aborted"
    /\ UNCHANGED <<file_name, keep_log, tagged_file_path>>
    /\ UNCHANGED <<beside_arch, fs_files>>

\* Step 3: tagged_file_path = _tag_media_file(export_file_path, tags_str)
ArchTag ==
    /\ arch_pc = "tag"
    /\ \E tool \in {"ok", "ffmpeg_fails", "xattr_fails"} :
       \E tagged \in {_tag_media_file(export_file_path(shoot_name, file_name), fs_dirs,
                                      fs_files, tool)} :
          /\ fs_files' = tagged.files
          /\ arch_pc' = IF tagged.ok THEN "copy" ELSE "done"
          /\ arch_outcome' = IF tagged.ok THEN "none" ELSE "aborted"
          /\ tagged_file_path' = IF tagged.ok
                                 THEN tagged_path_of(export_file_path(shoot_name, file_name))
                                 ELSE <<>>
    /\ UNCHANGED <<file_name, keep_log>>
    /\ UNCHANGED <<beside_arch, fs_dirs>>

\* ArchCopy that goes on to the cleanup whatever copy_and_verify returns.
ArchCopy_unverified ==
    /\ arch_pc = "copy"
    /\ \E io_ok \in BOOLEAN :
       \E f \in {[name |-> Last(tagged_file_path),
                  size |-> StatSize(tagged_file_path, fs_dirs, fs_files),
                  content |-> fs_files[FileAt(tagged_file_path, fs_dirs)].content]} :
       \E copy \in {copy_and_verify(f, archive_graded_dir, fs_dirs, fs_files, io_ok)} :
          /\ fs_files' = copy.files
          /\ arch_pc' = "cleanup"
          /\ arch_outcome' = "none"
    /\ UNCHANGED <<file_name, keep_log, tagged_file_path>>
    /\ UNCHANGED <<beside_arch, fs_dirs>>

\* Step 4: the copy to the archive.  When copy_and_verify returns False the
\* tagged file is unlinked and the run ends.
ArchCopy ==
    /\ arch_pc = "copy"
    /\ \E io_ok \in BOOLEAN :
       \E f \in {[name |-> Last(tagged_file_path),
                  size |-> StatSize(tagged_file_path, fs_dirs, fs_files),
                  content |-> fs_files[FileAt(tagged_file_path, fs_dirs)].content]} :
       \E copy \in {copy_and_verify(f, archive_graded_dir, fs_dirs, fs_files, io_ok)} :
          /\ fs_files' = IF copy.ok THEN copy.files
                         ELSE Unlink(tagged_file_path, fs_dirs, copy.files)
          /\ arch_pc' = IF copy.ok THEN "cleanup" ELSE "done"
          /\ arch_outcome' = IF copy.ok THEN "none" ELSE "aborted"
    /\ UNCHANGED <<file_name, keep_log, tagged_file_path>>
    /\ UNCHANGED <<beside_arch, fs_dirs>>

\* Steps 5 and 6: the tagged file is unlinked; unless keep_log, the video
\* files of 01_Source are unlinked one after the other, up to the first
\* unlink that raises, if one does.
ArchCleanup ==
    /\ arch_pc = "cleanup"
    /\ \E untagged \in {Unlink(tagged_file_path, fs_dirs, fs_files)} :
       \E listed \in {source_video_files(shoot_name, fs_dirs, untagged, scan_desc)} :
       \E k \in 0..Len(listed) :
          fs_files' = IF keep_log THEN untagged
                      ELSE clean_up_source(shoot_name, fs_dirs, untagged, scan_desc, k)
    /\ arch_pc' = "done"
    /\ arch_outcome' = "complete"
    /\ UNCHANGED <<file_name, keep_log, tagged_file_path>>
    /\ UNCHANGED <<beside_arch, fs_dirs>>

\* The render that is archived.
FinalRender == <<"f", ".", "m", "p", "4">>

\* What 01_Source may hold before the render is archived.
SourceClips ==
    {[name |-> ClipC20, size |-> 1, content |-> "s20"],
     [name |-> Clipc60, size |-> 2, content |-> "s60"],
     [name |-> NameT, size |-> 1, content |-> "T"]}

\* The file system before an archive.  exports is the state of 03_Exports:
\* "none" for no render, "render" for the render, "folder" for a folder of
\* the tagged file's name next to it.  clips is 01_Source.  graded is the
\* state of the archive: "none" for no Video folder, "made" for Video/Graded,
\* "file" for a file where Video goes.
ArchTree(exports, clips, graded) ==
    LET project == Append(work_ssd_dest, PullShoot)
        exports_dir == Append(project, Folder03)
        source_folder == Append(project, Folder01)
        video == Append(archive_dest, <<"V", "i", "d", "e", "o">>)
        render == Append(exports_dir, FinalRender)
        work_files ==
            (IF exports = "none" THEN {}
             ELSE {<<render, [size |-> 3, content |-> "render"]>>})
            \cup {<<Append(source_folder, f.name), [size |-> f.size, content |-> f.content]>> :
                     f \in clips.holds}
        archive_files ==
            IF graded = "file" THEN {<<video, [size |-> 1, content |-> "old"]>>} ELSE {}
        pairs == work_files \cup archive_files
    IN  [dirs |-> {<<>>, archive_dest, work_ssd_dest, project, exports_dir}
                    \cup (IF clips.exists THEN {source_folder} ELSE {})
                    \cup (IF exports = "folder" THEN {tagged_path_of(render)} ELSE {})
                    \cup (IF graded = "made" THEN {video, archive_graded_dir} ELSE {}),
         files |-> [p \in {pr[1] : pr \in pairs} |-> (CHOOSE pr \in pairs : pr[1] = p)[2]]]

ArchTrees ==
    {ArchTree(exports, clips, graded) :
        exports \in {"none", "render", "folder"},
        clips \in {NoFolder} \cup {[exists |-> TRUE, holds |-> S] : S \in SUBSET SourceClips},
        graded \in {"none", "made", "file"}}

ArchInit ==
    /\ arch_pc = "start"
    /\ file_name = FinalRender
    /\ keep_log \in BOOLEAN
    /\ ArchBlank
    /\ shoot_name = PullShoot
    /\ scan_desc \in BOOLEAN
    /\ \E t \in ArchTrees :
          /\ fs_dirs = t.dirs
          /\ fs_files = t.files
          /\ fs_dirs0 = t.dirs
          /\ fs_files0 = t.files
    /\ IngestUnused
    /\ RtIdle
    /\ MpIdle
    /\ ScIdle
    /\ PullIdle
    /\ PrepIdle
    /\ ConsIdle
    /\ ClIdle

ArchNext == ArchStart \/ ArchTag \/ ArchCopy \/ ArchCleanup

SpecArch == ArchInit /\ [][ArchNext]_vars

\* The files 01_Source held before the run.
SourceBefore ==
    {p \in DOMAIN fs_files0 : Front(p) = Append(project_dir(shoot_name), Folder01)}

\* The tagged render is in archive/Video/Graded, written by this run.
TaggedInArchive ==
    /\ tagged_file_path # <<>>
    /\ LET copy == Append(archive_graded_dir, Last(tagged_file_path))
       IN  /\ copy \in DOMAIN fs_files
           /\ copy \notin DOMAIN fs_files0
           /\ fs_files[copy].content = "tagged"

\* C27: a step of archive_file deletes a file of 01_Source only if keep_log
\* is false, the file is a video file, and the tagged render was copied to
\* archive/Video/Graded and found there before the step; and whenever the
\* run has ended by an abort (no export, ffmpeg fails, the archive folder
\* cannot be made, the copy fails) or keep_log is true, every file 01_Source
\* held is there as it was.
C27_DeletesOnlyAfterVerifiedCopy ==
    /\ [][\A p \in SourceBefore :
             (p \in DOMAIN fs_files /\ p \notin DOMAIN fs_files')
             => /\ ~keep_log
                /\ IsVideoFile([name |-> Last(p)])
                /\ arch_pc = "cleanup"
                /\ TaggedInArchive]_vars
    /\ []((arch_outcome = "aborted" \/ keep_log)
          => \A p \in SourceBefore : p \in DOMAIN fs_files /\ fs_files[p] = fs_files0[p])
    /\ [](\A p \in SourceBefore : p \in DOMAIN fs_files => fs_files[p] = fs_files0[p])

\* An archive without keep_log has ended: the tagged render is in the
\* archive, and the two clips of 01_Source are gone while the file that is
\* no video is still there.
C27_ClipsDeletedAfterCopy ==
    /\ arch_pc = "done"
    /\ arch_outcome = "complete"
    /\ ~keep_log
    /\ TaggedInArchive
    /\ Cardinality(SourceBefore) = 3
    /\ {p \in SourceBefore : p \in DOMAIN fs_files}
          = {project_dir(shoot_name) \o <<Folder01, NameT>>}

(***************************************************************************)
(* consolidate_files: vflow consolidate.  The files of a source directory  *)
(* that the archive does not hold by name and size are copied to a new     *)
(* folder of the archive.                                                  *)
(***************************************************************************)
\* What consolidate_files leaves alone besides the file system.
beside_cons ==
    <<rt_vars, mp_vars, sc_vars, ingest_rest, pull_vars, prep_vars, arch_vars, cl_vars>>

\* output_path = archive_path / output_folder_name
output_path(name) == PathJoin(archive_dest, name)

copied_log_path(name) ==
    Append(output_path(name),
           <<"c", "o", "p", "i", "e", "d", "_", "f", "i", "l", "e", "s", ".", "t", "x", "t">>)

skipped_log_path(name) ==
    Append(output_path(name),
           <<"s", "k", "i", "p", "p", "e", "d", "_", "d", "u", "p", "l", "i", "c", "a", "t",
             "e", "s", ".", "t", "x", "t">>)

\* A name that the pattern "*.*" matches.
HasDot(name) == \E i \in 1..Len(name) : name[i] = "."

\* list(d.rglob("*.*")): the entries of d whose name has a dot, in the order
\* of the listing, then those of each of its folders in turn.
RECURSIVE rglob_dot(_, _, _, _)
RECURSIVE RglobEach(_, _, _, _, _)
rglob_dot(d, dirs, files, desc) ==
    LET names == IterDir(d, dirs, files, desc)
        here == SelectSeq(names, HasDot)
        folders == SelectSeq(names, LAMBDA n : IsDir(Append(d, n), dirs))
    IN  [i \in 1..Len(here) |-> Append(d, here[i])] \o RglobEach(d, folders, dirs, files, desc)

RglobEach(d, folders, dirs, files, desc) ==
    IF folders = <<>> THEN <<>>
    ELSE rglob_dot(Append(d, Head(folders)), dirs, files, desc)
         \o RglobEach(d, Tail(folders), dirs, files, desc)

\* file_id = (file.name, file.stat().st_size)
file_id(p, dirs, files) == <<Last(p), StatSize(p, dirs, files)>>

\* "Build index of the archive"
build_archive_index(dirs, files, desc) ==
    LET all_archive_files == rglob_dot(archive_dest, dirs, files, desc)
    IN  {file_id(all_archive_files[i], dirs, files) :
            i \in {j \in 1..Len(all_archive_files) :
                      IsFile(all_archive_files[j], dirs, files)}}

\* path.open("w"), and what a log file is after its lines are written.  The
\* size of a log file is taken to be the number of its lines.
WriteLog(p, lines, dirs, files) ==
    [q \in DOMAIN files \cup {FileAt(p, dirs)} |->
        IF q = FileAt(p, dirs) THEN [size |-> Len(lines), content |-> "log"] ELSE files[q]]

\* The body of the loop over source_files for one entry, [what, files]: an
\* entry that is no file is passed over, a file whose id is in the index is
\* logged as skipped, any other is copied and logged as copied whatever
\* copy_and_verify returns.
consolidate_one(file, out, index, dirs, files, io_ok) ==
    IF ~IsFile(file, dirs, files) THEN [what |-> "no_file", files |-> files]
    ELSE IF file_id(file, dirs, files) \in index THEN [what |-> "skipped", files |-> files]
    ELSE LET f == [name |-> Last(file), size |-> StatSize(file, dirs, files),
                   content |-> files[FileAt(file, dirs)].content]
             copy == copy_and_verify(f, out, dirs, files, io_ok)
         IN  [what |-> IF copy.ok THEN "copied" ELSE "copy_failed", files |-> copy.files]

\* The copies of the run that did not go through.
FailedCopies == {i \in 1..Len(cons_copies) : ~cons_copies[i][2]}

\* consolidate_files up to the loop: the source, the output folder, the
\* index of the archive, the list of the source, the two log files.
ConsStart ==
    /\ cons_pc = "start"
    /\ IF ~IsDir(source_dir, fs_dirs)
       THEN /\ cons_pc' = "done"
            /\ cons_outcome' = "aborted"
            /\ UNCHANGED <<archive_index, source_files, fs_vars>>
       ELSE \E made \in {MkdirParents(output_path(output_folder_name), fs_dirs, fs_files)} :
               /\ fs_dirs' = made.dirs
               /\ IF ~made.ok
                  THEN /\ cons_pc' = "done"
                       /\ cons_outcome' = "aborted"
                       /\ UNCHANGED <<archive_index, source_files, fs_files>>
                  ELSE /\ archive_index' = build_archive_index(made.dirs, fs_files, scan_desc)
                       /\ source_files' = rglob_dot(source_dir, made.dirs, fs_files, scan_desc)
                       /\ fs_files' =
                             WriteLog(skipped_log_path(output_folder_name), <<>>, made.dirs,
                                WriteLog(copied_log_path(output_folder_name), <<>>,
                                         made.dirs, fs_files))
                       /\ cons_pc' = "scan"
                       /\ UNCHANGED cons_outcome
    /\ UNCHANGED <<source_dir, output_folder_name, cons_idx, cons_copied_count,
                   cons_skipped_count, copied_log, skipped_log, cons_copies, cons_run,
                   first_run>>
    /\ UNCHANGED beside_cons

\* One turn of the loop over source_files.
ConsScan ==
    /\ cons_pc = "scan"
    /\ cons_idx < Len(source_files)
    /\ \E io_ok \in BOOLEAN :
       \E file \in {source_files[cons_idx + 1]} :
       \E did \in {consolidate_one(file, output_path(output_folder_name), archive_index,
                                   fs_dirs, fs_files, io_ok)} :
       \E copied \in {did.what \in {"copied", "copy_failed"}} :
          /\ ~io_ok => Cardinality(FailedCopies) < MaxCopyFailures
          /\ ~io_ok => did.what = "copy_failed"
          /\ copied_log' = IF copied THEN Append(copied_log, file) ELSE copied_log
          /\ skipped_log' = IF did.what = "skipped" THEN Append(skipped_log, file)
                            ELSE skipped_log
          /\ archive_index' = IF copied
                              THEN archive_index \cup {file_id(file, fs_dirs, fs_files)}
                              ELSE archive_index
          /\ cons_copied_count' = cons_copied_count + (IF copied THEN 1 ELSE 0)
          /\ cons_skipped_count' = cons_skipped_count + (IF did.what = "skipped" THEN 1 ELSE 0)
          /\ cons_copies' = IF copied THEN Append(cons_copies, <<file, did.what = "copied">>)
                            ELSE cons_copies
          /\ fs_files' =
                WriteLog(skipped_log_path(output_folder_name), skipped_log', fs_dirs,
                   WriteLog(copied_log_path(output_folder_name), copied_log', fs_dirs,
                            did.files))
    /\ cons_idx' = cons_idx + 1
    /\ UNCHANGED <<cons_pc, cons_outcome, source_dir, output_folder_name, source_files,
                   cons_run, first_run>>
    /\ UNCHANGED <<beside_cons, fs_dirs>>

\* "Consolidation complete."
ConsSummary ==
    /\ cons_pc = "scan"
    /\ cons_idx = Len(source_files)
    /\ cons_pc' = "done"
    /\ cons_outcome' = "complete"
    /\ UNCHANGED <<source_dir, output_folder_name, archive_index, source_files, cons_idx,
                   cons_copied_count, cons_skipped_count, copied_log, skipped_log,
                   cons_copies, cons_run, first_run>>
    /\ UNCHANGED <<beside_cons, fs_vars>>

\* The command is run again with the same arguments on the disk the run
\* before it has left.
ConsRerun ==
    /\ cons_pc = "done"
    /\ cons_outcome = "complete"
    /\ cons_run < MaxRuns
    /\ cons_run' = cons_run + 1
    /\ first_run' = IF cons_run = 1
                    THEN [copied_count |-> cons_copied_count,
                          failed |-> Cardinality(FailedCopies)]
                    ELSE first_run
    /\ cons_pc' = "start"
    /\ cons_outcome' = "none"
    /\ archive_index' = {}
    /\ source_files' = <<>>
    /\ cons_idx' = 0
    /\ cons_copied_count' = 0
    /\ cons_skipped_count' = 0
    /\ copied_log' = <<>>
    /\ skipped_log' = <<>>
    /\ cons_copies' = <<>>
    /\ UNCHANGED <<source_dir, output_folder_name>>
    /\ UNCHANGED <<beside_cons, fs_vars>>

\* The source drive and the folder that is made in the archive.
ConsSource == << <<"S">> >>

OutputFolder == <<"o", "u", "t">>

NameX4 == <<"x", ".", "m", "p", "4">>

\* What the source drive may hold: a clip, a clip of its name and of another
\* size in a folder, a clip of its name and of its size in another folder, a
\* second clip, and a file whose name has no dot.
DriveFiles ==
    {[at |-> <<NameX4>>, size |-> 1, content |-> "x1"],
     [at |-> <<<<"d">>, NameX4>>, size |-> 2, content |-> "x2"],
     [at |-> <<<<"e">>, NameX4>>, size |-> 1, content |-> "x3"],
     [at |-> <<<<"y", ".", "m", "o", "v">>>>, size |-> 1, content |-> "y"],
     [at |-> <<<<"R", "E", "A", "D", "M", "E">>>>, size |-> 1, content |-> "r"]}

\* The file system before a consolidation.  drive is the source drive, held
\* is what the archive holds already: "nothing", "clip" for the first clip
\* by name and size, "other" for a file of its name and of a third size.
ConsTree(drive, held) ==
    LET old == Append(archive_dest, <<"o", "l", "d">>)
        drive_files ==
            {<<ConsSource \o f.at, [size |-> f.size, content |-> f.content]>> :
                f \in drive.holds}
        archive_files ==
            IF held = "clip" THEN {<<Append(old, NameX4), [size |-> 1, content |-> "old"]>>}
            ELSE IF held = "other"
            THEN {<<Append(old, NameX4), [size |-> 3, content |-> "old"]>>}
            ELSE {}
        pairs == drive_files \cup archive_files
    IN  [dirs |-> {<<>>, archive_dest}
                    \cup (IF held = "nothing" THEN {} ELSE {old})
                    \cup (IF drive.exists THEN {ConsSource} ELSE {})
                    \cup {ConsSource \o Front(f.at) : f \in drive.holds},
         files |-> [p \in {pr[1] : pr \in pairs} |-> (CHOOSE pr \in pairs : pr[1] = p)[2]]]

ConsTrees ==
    {ConsTree(drive, held) :
        drive \in {NoFolder} \cup {[exists |-> TRUE, holds |-> S] : S \in SUBSET DriveFiles},
        held \in {"nothing", "clip", "other"}}

ConsInit ==
    /\ cons_pc = "start"
    /\ source_dir = ConsSource
    /\ output_folder_name = OutputFolder
    /\ ConsBlank
    /\ cons_run = 1
    /\ first_run = [copied_count |-> 0, failed |-> 0]
    /\ scan_desc \in BOOLEAN
    /\ \E t \in ConsTrees :
          /\ fs_dirs = t.dirs
          /\ fs_files = t.files
          /\ fs_dirs0 = t.dirs
          /\ fs_files0 = t.files
    /\ shoot_name = <<>>
    /\ IngestUnused
    /\ RtIdle
    /\ MpIdle
    /\ ScIdle
    /\ PullIdle
    /\ PrepIdle
    /\ ArchIdle
    /\ ClIdle

ConsNext == ConsStart \/ ConsScan \/ ConsSummary \/ ConsRerun

SpecCons == ConsInit /\ [][ConsNext]_vars

(***************************************************************************)
(* Claims on consolidate_files.                                            *)
(***************************************************************************)
\* The places in source_files of the files of the source.
Scanned == {i \in 1..Len(source_files) : IsFile(source_files[i], fs_dirs0, fs_files0)}

\* The name and size of a file of the source.
SourceId(i) == <<Last(source_files[i]), fs_files0[source_files[i]].size>>

IsLogged(log, p) == \E k \in 1..Len(log) : log[k] = p

\* The index of the archive as the disk was before the first run.
IndexBefore == build_archive_index(fs_dirs0, fs_files0, scan_desc)

\* The files under the archive.
UnderArchive == {q \in DOMAIN fs_files : SubSeq(q, 1, Len(archive_dest)) = archive_dest}

\* C28: when a consolidation has ended, each file of the source is logged
\* and counted once, as copied or as skipped; in the first run it is copied
\* iff its name and size are neither in the index of what the archive held
\* nor those of a file copied earlier in the run; and a second run over the
\* same source copies nothing.
C28_CopiedIffNewPair ==
    (cons_pc = "done" /\ cons_outcome = "complete")
    => /\ \A i \in Scanned :
             IsLogged(copied_log, source_files[i]) # IsLogged(skipped_log, source_files[i])
       /\ cons_copied_count = Len(copied_log)
       /\ cons_skipped_count = Len(skipped_log)
       /\ cons_copied_count + cons_skipped_count = Cardinality(Scanned)
       /\ cons_run = 1 =>
             \A i \in Scanned :
                IsLogged(copied_log, source_files[i])
                <=> /\ SourceId(i) \notin IndexBefore
                    /\ \A j \in Scanned :
                          (j < i /\ IsLogged(copied_log, source_files[j]))
                          => SourceId(j) # SourceId(i)
       /\ cons_run = 2 => cons_copied_count = 0

\* A second run over the same source has ended with one file copied, after
\* a first run that copied two files, and no copy failed in either run.
C28_SecondRunCopiesAgain ==
    /\ cons_pc = "done"
    /\ cons_outcome = "complete"
    /\ cons_run = 2
    /\ first_run = [copied_count |-> 2, failed |-> 0]
    /\ FailedCopies = {}
    /\ cons_copied_count = 1

\* C29: when a consolidation has ended, every file of the source that was
\* scanned has a file of its name and size somewhere under the archive, and
\* every path in copied_files.txt has a file of its name and size in the
\* output folder.
C29_EveryScannedFileInArchive ==
    (cons_pc = "done" /\ cons_outcome = "complete")
    => /\ \A i \in Scanned :
             \E q \in UnderArchive :
                Last(q) = SourceId(i)[1] /\ fs_files[q].size = SourceId(i)[2]
       /\ \A k \in 1..Len(copied_log) :
             LET q == Append(output_path(output_folder_name), Last(copied_log[k]))
             IN  /\ q \in DOMAIN fs_files
                 /\ fs_files[q].size = fs_files0[copied_log[k]].size

\* A first run has ended in which no copy failed, two files were copied,
\* and the first of them has no file of its name and size under the archive.
C29_CopiedFileOverwritten ==
    /\ cons_pc = "done"
    /\ cons_outcome = "complete"
    /\ cons_run = 1
    /\ FailedCopies = {}
    /\ Len(copied_log) = 2
    /\ skipped_log = <<>>
    /\ Last(copied_log[1]) = Last(copied_log[2])
    /\ ~\E q \in UnderArchive :
            /\ Last(q) = Last(copied_log[1])
            /\ fs_files[q].size = fs_files0[copied_log[1]].size

(***************************************************************************)
(* utils_date.cluster_files_by_date.  A time is a number of seconds; a     *)
(* plain date is a number of days.                                         *)
(***************************************************************************)
\* The 3600 of diff.total_seconds() / 3600
SecondsPerHour == 3600

\* The number of entries of the longest input, and the number of half hours
\* (of days, for plain dates) of the latest time.
MaxInputLen == 3

MaxTick == 4

\* datetime.combine(file_date, datetime.min.time()) for a plain date, the
\* time itself otherwise.
ToDatetime(e) == IF e.kind = "date" THEN e.at * 24 * SecondsPerHour ELSE e.at

\* sorted(files_with_dates, key=lambda x: x[1]): entries of equal time keep
\* their order.
RECURSIVE SortByDate(_)
SortByDate(s) ==
    IF s = <<>> THEN <<>>
    ELSE LET before == SortByDate(Front(s))
             place == Cardinality({i \in 1..Len(before) : before[i].at <= Last(s).at})
         IN  SubSeq(before, 1, place) \o <<Last(s)>> \o SubSeq(before, place + 1, Len(before))

\* The test that starts a new cluster with > in place of >=.
gap_exceeded_strictly(diff_seconds, gap) == diff_seconds > gap * SecondsPerHour

\* diff_hours >= gap_hours, with diff_hours = diff.total_seconds() / 3600
gap_exceeded(diff_seconds, gap) == diff_seconds >= gap * SecondsPerHour

\* The loop of cluster_files_by_date from the i-th entry on.
RECURSIVE ClusterFrom(_, _, _, _, _, _)
ClusterFrom(sorted_files, i, last_date, current_cluster, done, gap) ==
    IF i > Len(sorted_files)
    THEN (IF current_cluster # <<>> THEN Append(done, current_cluster) ELSE done)
    ELSE LET file_date == ToDatetime(sorted_files[i])
         IN  IF gap_exceeded(file_date - last_date, gap)
             THEN ClusterFrom(sorted_files, i + 1, file_date, <<sorted_files[i].file>>,
                              Append(done, current_cluster), gap)
             ELSE ClusterFrom(sorted_files, i + 1, file_date,
                              Append(current_cluster, sorted_files[i].file), done, gap)

cluster_files_by_date(with_dates, gap) ==
    IF with_dates = <<>> THEN <<>>
    ELSE LET sorted_files == SortByDate(with_dates)
         IN  ClusterFrom(sorted_files, 2, ToDatetime(sorted_files[1]),
                         <<sorted_files[1].file>>, <<>>, gap)

\* The inputs: up to MaxInputLen files, each at a half hour between 0 and
\* MaxTick half hours, or each at a plain date between day 0 and day MaxTick.
ClusterInputs ==
    UNION {{[i \in 1..n |-> [file |-> i, kind |-> k,
                             at |-> IF k = "date" THEN ticks[i]
                                    ELSE ticks[i] * (SecondsPerHour \div 2)]] :
               ticks \in [1..n -> 0..MaxTick], k \in {"datetime", "date"}} :
           n \in 0..MaxInputLen}

\* The values of gap_hours: none, one and two hours, a day.
GapHours == {0, 1, 2, 24}

ClInit ==
    /\ cl_pc = "input"
    /\ files_with_dates \in ClusterInputs
    /\ gap_hours \in GapHours
    /\ clusters = <<>>
    /\ IngestIdle
    /\ RtIdle
    /\ MpIdle
    /\ ScIdle
    /\ PullIdle
    /\ PrepIdle
    /\ ArchIdle
    /\ ConsIdle

\* clusters = cluster_files_by_date(files_with_dates, gap_hours)
ClCluster ==
    /\ cl_pc = "input"
    /\ clusters' = cluster_files_by_date(files_with_dates, gap_hours)
    /\ cl_pc' = "clustered"
    /\ UNCHANGED <<files_with_dates, gap_hours>>
    /\ UNCHANGED <<rt_vars, mp_vars, sc_vars, ingest_vars, pull_vars, prep_vars, arch_vars,
                   cons_vars>>

ClNext == ClCluster

SpecCluster == ClInit /\ [][ClNext]_vars

RECURSIVE Flatten(_)
Flatten(cs) == IF cs = <<>> THEN <<>> ELSE Head(cs) \o Flatten(Tail(cs))

\* The entry of the input that holds a file, and its time in seconds.
EntryOf(file) == CHOOSE i \in 1..Len(files_with_dates) : files_with_dates[i].file = file

TimeOf(file) == ToDatetime(files_with_dates[EntryOf(file)])

\* The number of the cluster that holds the k-th file of the clusters put
\* end to end.
ClusterOf(k) ==
    CHOOSE c \in 1..Len(clusters) :
        /\ Len(Flatten(SubSeq(clusters, 1, c - 1))) < k
        /\ k <= Len(Flatten(SubSeq(clusters, 1, c)))

\* C30: the clusters are a partition of the input in ascending order of
\* time.  No cluster is empty; put end to end they hold every file of the
\* input once, in ascending order of time, files of one time in the order of
\* the input; two files next to each other in that order are in one cluster
\* iff the time between them is less than gap_hours hours, so that a gap of
\* exactly gap_hours starts a new cluster; and no input gives no cluster.
C30_ClustersPartitionByGap ==
    cl_pc = "clustered"
    => LET flat == Flatten(clusters)
       IN  /\ \A c \in 1..Len(clusters) : clusters[c] # <<>>
           /\ Len(flat) = Len(files_with_dates)
           /\ \A i \in 1..Len(files_with_dates) :
                 Cardinality({k \in 1..Len(flat) : flat[k] = files_with_dates[i].file}) = 1
           /\ \A k \in 1..(Len(flat) - 1) :
                 /\ TimeOf(flat[k]) <= TimeOf(flat[k + 1])
                 /\ TimeOf(flat[k]) = TimeOf(flat[k + 1]) => EntryOf(flat[k]) < EntryOf(flat[k + 1])
                 /\ ClusterOf(k) = ClusterOf(k + 1)
                    <=> TimeOf(flat[k + 1]) - TimeOf(flat[k]) < gap_hours * SecondsPerHour
           /\ files_with_dates = <<>> => clusters = <<>>

\* Three files given out of order, at 1 h 30, 0 h and 0 h 30, are clustered
\* with a gap of one hour: the files at 0 h and 0 h 30 form a cluster, and
\* the file at 1 h 30, exactly one hour after the one before it, starts a
\* new cluster.
C30_ExactGapStartsCluster ==
    /\ cl_pc = "clustered"
    /\ gap_hours = 1
    /\ Len(files_with_dates) = 3
    /\ files_with_dates[1].at = 3 * (SecondsPerHour \div 2)
    /\ files_with_dates[2].at = 0
    /\ files_with_dates[3].at = SecondsPerHour \div 2
    /\ files_with_dates[1].kind = "datetime"
    /\ clusters = << <<2, 3>>, <<1>> >>

====
